---- MODULE Spec2Model ----
(***************************************************************************)
(* A model of ugrep 1.3.7 (src/src/ugrep.cpp): the match-and-emit engine   *)
(* ugrep(), the file walk findinfiles()/find()/recurse() and the option    *)
(* normalisation of main().                                                *)
(*                                                                         *)
(* Bytes are the strings "a", "b", "n" (newline) and "z" (NUL).  Input     *)
(* is a sequence of bytes; getline() cuts it into lines as the code does.  *)
(* The regex matcher (RE/flex, not part of src/) is an operator find()     *)
(* that yields the leftmost non-overlapping occurrences of a literal       *)
(* pattern, which may contain a newline.  Output is a sequence of          *)
(* records, one per header/line/message the code writes.                   *)
(***************************************************************************)
EXTENDS Integers, Sequences, FiniteSets, TLC

VARIABLES
  flags,    \* the flag_* globals of the run under test, after normalisation
  flags2,   \* the flag_* globals of the second run of a two-run comparison
  pattern,  \* the compiled pattern
  input,    \* the bytes of the source being searched
  eng,      \* locals of the running ugrep() call
  eng2,     \* locals of the second ugrep() call of a two-run comparison
  walk,     \* findinfiles(): remaining command-line arguments and call stack
  stats,    \* struct Stats: files, dirs, fileno
  status    \* exit status of the session, or "none" while it runs

vars == <<flags, flags2, pattern, input, eng, eng2, walk, stats, status>>

----------------------------------------------------------------------------
(* Bounds of the model *)

MaxLines == 3     \* lines per source in the two-run and max-count models
MaxCtxLines == 5  \* lines per source in the context model
MaxCtx == 2       \* largest -A / -B value
MaxCount == 2     \* largest -m value
MaxArgs == 2      \* command-line file arguments
MaxFilesCap == 2  \* largest --max-files value
MaxDepthCap == 1  \* largest --max-depth value
MaxEmpty == 2     \* empty matches the matcher offers at one position

----------------------------------------------------------------------------
(* Bytes, lines and the matcher *)

NL == "n"
NUL == "z"

UNDEFINED == -1

Min(x, y) == IF x <= y THEN x ELSE y

RECURSIVE Flatten(_)
Flatten(ss) == IF ss = <<>> THEN <<>> ELSE Head(ss) \o Flatten(Tail(ss))

\* Sequences over S of length 0..n
SeqsUpTo(S, n) == UNION {[1..k -> S] : k \in 0..n}

\* is_binary(): the text holds a NUL (the model has no bytes >= 0x80)
is_binary(text) == \E i \in 1..Len(text) : text[i] = NUL

\* getline(): the next line, up to and including its newline, from offset
\* here; eof is the function's return value (true when nothing is left)
LineEnd(buf, here) ==
  IF \E i \in (here + 1)..Len(buf) : buf[i] = NL
  THEN CHOOSE i \in (here + 1)..Len(buf) :
         buf[i] = NL /\ \A j \in (here + 1)..(i - 1) : buf[j] # NL
  ELSE Len(buf)

getline(buf, here) ==
  [eof  |-> here >= Len(buf),
   line |-> SubSeq(buf, here + 1, LineEnd(buf, here)),
   next |-> LineEnd(buf, here)]

\* All lines of a buffer, in order
RECURSIVE LinesFrom(_, _)
LinesFrom(buf, here) ==
  IF getline(buf, here).eof THEN <<>>
  ELSE <<getline(buf, here).line>> \o LinesFrom(buf, getline(buf, here).next)

NumLines(buf) == Len(LinesFrom(buf, 0))

\* matcher.find over the bound buffer: leftmost non-overlapping occurrences
\* of the pattern, each with first/last byte offsets in the buffer; the
\* pattern <<>> stands for one that matches the empty string at the start,
\* again and again for as long as the iteration goes on (MaxEmpty times)
OccursAt(buf, p, pat) ==
  /\ p + Len(pat) - 1 <= Len(buf)
  /\ \A k \in 1..Len(pat) : buf[p + k - 1] = pat[k]

RECURSIVE FindFrom(_, _, _)
FindFrom(buf, pat, p) ==
  IF p > Len(buf) THEN <<>>
  ELSE IF pat = <<>> THEN [i \in 1..MaxEmpty |-> [first |-> p - 1, last |-> p - 1]]
  ELSE IF OccursAt(buf, p, pat)
       THEN <<[first |-> p - 1, last |-> p - 1 + Len(pat)]>>
            \o FindFrom(buf, pat, p + Len(pat))
       ELSE FindFrom(buf, pat, p + 1)

find(buf, pat) == FindFrom(buf, pat, 1)

\* match.lineno(): 1-based line of the buffer in which the match starts
match_lineno(buf, m) == 1 + Cardinality({i \in 1..m.first : buf[i] = NL})

\* match.begin() .. match.size()
match_bytes(buf, m) == SubSeq(buf, m.first + 1, m.last)

\* the bytes data[from .. from+size-1] handed to fwrite()/hex_dump(); a
\* byte "?" is one read past the end of the line, whatever memory holds there
Bytes(data, from, size) ==
  SubSeq(data, from + 1, Min(from + size, Len(data)))
    \o [i \in 1..(from + size - Min(from + size, Len(data))) |-> "?"]

----------------------------------------------------------------------------
(* Flags *)

DefaultFlags ==
  [flag_quiet                  |-> FALSE,
   flag_files_with_match       |-> FALSE,
   flag_files_without_match    |-> FALSE,
   flag_count                  |-> FALSE,
   flag_only_matching          |-> FALSE,
   flag_only_line_number       |-> FALSE,
   flag_invert_match           |-> FALSE,
   flag_no_group               |-> FALSE,
   flag_any_line               |-> FALSE,
   flag_line_number            |-> FALSE,
   flag_break                  |-> FALSE,
   flag_binary_without_matches |-> FALSE,
   flag_text                   |-> FALSE,
   flag_hex                    |-> FALSE,
   flag_with_hex               |-> FALSE,
   flag_after_context          |-> 0,
   flag_before_context         |-> 0,
   flag_max_count              |-> 0,
   flag_max_files              |-> 0,
   flag_max_depth              |-> 0,
   flag_group_separator        |-> TRUE,   \* TRUE: "--", FALSE: NULL
   flag_no_messages            |-> FALSE,
   flag_no_hidden              |-> FALSE,
   flag_devices                |-> "read",
   flag_directories            |-> "read",
   flag_file_magic             |-> FALSE,  \* TRUE: the list is not empty
   flag_include                |-> FALSE,  \* TRUE: the list is not empty
   flag_include_dir            |-> FALSE,  \* TRUE: the list is not empty
   flag_binary_files           |-> "binary"]

\* NormalizeContext without the assignment: -y leaves -A and -B alone
NormalizeContext_KeepsContext(f) == f

\* main(): -y disables -A/-B/-C; -y, -A, -B, -C disable -o; -v disables -g
\* and -o; -q sets --max-files=1

NormalizeContext(f) ==
  IF f.flag_any_line
  THEN [f EXCEPT !.flag_after_context = 0, !.flag_before_context = 0]
  ELSE f

NormalizeOnly(f) ==
  IF f.flag_any_line \/ f.flag_after_context > 0 \/ f.flag_before_context > 0
  THEN [f EXCEPT !.flag_only_matching = FALSE]
  ELSE f

NormalizeInvert(f) ==
  IF f.flag_invert_match
  THEN [f EXCEPT !.flag_no_group = FALSE, !.flag_only_matching = FALSE]
  ELSE f

NormalizeQuiet(f) ==
  IF f.flag_quiet THEN [f EXCEPT !.flag_max_files = 1] ELSE f

Normalize(f) == NormalizeQuiet(NormalizeInvert(NormalizeOnly(NormalizeContext(f))))

\* main(): --binary-files=TYPE is normalised by assigning flags
BinaryFilesTypes == {"binary", "without-matches", "text", "hex", "with-hex"}

BinaryFiles(f, type) ==
  IF type = "without-matches" THEN [f EXCEPT !.flag_binary_without_matches = TRUE]
  ELSE IF type = "text" THEN [f EXCEPT !.flag_text = TRUE]
  ELSE IF type = "hex" THEN [f EXCEPT !.flag_hex = TRUE]
  ELSE IF type = "with-hex" THEN [f EXCEPT !.flag_with_hex = TRUE]
  ELSE f

----------------------------------------------------------------------------
(* Output records *)

Part(mode, bytes) == [mode |-> mode, bytes |-> bytes]

\* One header (display()) and the bytes written after it.  hdr is FALSE
\* when the code writes the bytes without calling display().
Rec(kind, lineno, sep, hdr, hex, parts) ==
  [kind |-> kind, lineno |-> lineno, sep |-> sep, hdr |-> hdr, hex |-> hex,
   parts |-> parts, n |-> 0]

BinaryMsg    == Rec("bin", 0, "", FALSE, FALSE, <<>>)   \* "Binary file %s matches\n"
GroupSepMsg  == Rec("gsep", 0, "", FALSE, FALSE, <<>>)  \* flag_group_separator line
BreakMsg     == Rec("break", 0, "", FALSE, FALSE, <<>>) \* --break: blank line
NameMsg      == Rec("name", 0, "", FALSE, FALSE, <<>>)  \* -l / -L: pathname
CountMsg(c)  == [Rec("count", 0, "", FALSE, FALSE, <<>>) EXCEPT !.n = c]

\* -m: max number of matches reached?
MaxCountReached(f, matches) ==
  f.flag_max_count > 0 /\ matches >= f.flag_max_count

\* the line is shown as the message "Binary file ... matches"
BinaryHalt_HexOnly(f, binary) == binary /\ f.flag_hex

BinaryHalt(f, binary) == binary /\ ~f.flag_hex /\ ~f.flag_with_hex

\* gap and match bytes of a line up to each match, then the tail: the
\* pieces written for a line whose matches are grouped
RECURSIVE GroupedParts_GapFromStart(_, _, _, _, _)
RECURSIVE GroupedParts(_, _, _, _, _)
\* GroupedParts with every gap taken from the start of the line
GroupedParts_GapFromStart(line, ms, last, lineMode, matchMode) ==
  IF ms = <<>>
  THEN <<Part(lineMode, Bytes(line, last, Len(line) - last))>>
  ELSE LET m == Head(ms) IN
       <<Part(lineMode, Bytes(line, 0, m.first - last)),
         Part(matchMode, match_bytes(line, m))>>
       \o GroupedParts_GapFromStart(line, Tail(ms), m.last, lineMode, matchMode)

GroupedParts(line, ms, last, lineMode, matchMode) ==
  IF ms = <<>>
  THEN <<Part(lineMode, Bytes(line, last, Len(line) - last))>>
  ELSE LET m == Head(ms) IN
       IF m.last = 0
       THEN \* skip any further empty pattern matches
            IF lineMode = "cx"
            THEN <<Part(lineMode, Bytes(line, last, m.first - last)),
                   Part(lineMode, Bytes(line, 0, Len(line)))>>
            ELSE <<Part(lineMode, Bytes(line, last, m.first - last)),
                   Part(matchMode, match_bytes(line, m)),
                   Part(lineMode, Bytes(line, 0, Len(line)))>>
       ELSE <<Part(lineMode, Bytes(line, last, m.first - last)),
              Part(matchMode, match_bytes(line, m))>>
            \o GroupedParts(line, Tail(ms), m.last, lineMode, matchMode)

----------------------------------------------------------------------------
(* ugrep(): locals of one call *)

Ring(f, v) == [i \in 0..f.flag_before_context |-> v]

UgrepInit(f) ==
  [pc           |-> "loop",   \* "loop": in the line loop; "exit": at exit_ugrep;
                              \* "ret": returned
   here         |-> 0,        \* bytes of the input consumed
   byte_offset  |-> 0,
   lineno       |-> 1,
   before       |-> 0,
   after        |-> 0,
   matches      |-> 0,
   lines        |-> Ring(f, <<>>),
   byte_offsets |-> Ring(f, 0),
   binary       |-> Ring(f, FALSE),
   out          |-> <<>>,
   ret          |-> FALSE,
   mmap         |-> FALSE,    \* the input is a file that mmap() can map
   base         |-> "NULL",   \* "NULL" or "mapped"
   maps         |-> 0,        \* successful mmap() calls
   unmaps       |-> 0]        \* munmap() calls

\* mmap_file(): base and size are set when the input can be mapped
mmap_file(s) ==
  IF s.mmap THEN [s EXCEPT !.base = "mapped", !.maps = @ + 1]
  ELSE [s EXCEPT !.base = "NULL"]

\* munmap_file that never unmaps
munmap_file_Never(s) == s

\* munmap_file(): "if mmap was used, then deallocate"
munmap_file(s) == IF s.base # "NULL" THEN [s EXCEPT !.unmaps = @ + 1] ELSE s

Idle == [UgrepInit(DefaultFlags) EXCEPT !.pc = "ret"]

\* what one pass over a line hands back to the loop
Res(out, matches, stop) == [out |-> out, matches |-> matches, stop |-> stop]

\* -g: the three pieces written for one match of a line
NoGroupParts(line, m, binary) ==
  IF binary
  THEN <<Part("sl", Bytes(line, 0, m.first)),
         Part("ms", match_bytes(line, m)),
         Part("sl", Bytes(line, m.last, m.last - m.first))>>
  ELSE <<Part("sl", Bytes(line, 0, m.first)),
         Part("ms", match_bytes(line, m)),
         Part("sl", Bytes(line, m.last, Len(line) - m.last))>>

RECURSIVE NoGroupLoop_NoSkip(_, _, _, _, _, _, _)
RECURSIVE NoGroupLoop(_, _, _, _, _, _, _)
\* NoGroupLoop going on after an empty match
NoGroupLoop_NoSkip(f, lineno, line, binary, ms, last, r) ==
  IF ms = <<>> THEN r
  ELSE LET m  == Head(ms)
           r1 == Res(Append(r.out,
                            Rec("sel", lineno, IF last = UNDEFINED THEN ":" ELSE "+",
                                TRUE, binary, NoGroupParts(line, m, binary))),
                     r.matches + 1,
                     MaxCountReached(f, r.matches + 1))
       IN IF r1.stop THEN r1
          ELSE NoGroupLoop_NoSkip(f, lineno, line, binary, Tail(ms), m.last, r1)

\* -g: one record per match, counting each match separately
NoGroupLoop(f, lineno, line, binary, ms, last, r) ==
  IF ms = <<>> THEN r
  ELSE LET m  == Head(ms)
           r1 == Res(Append(r.out,
                            Rec("sel", lineno, IF last = UNDEFINED THEN ":" ELSE "+",
                                TRUE, binary, NoGroupParts(line, m, binary))),
                     r.matches + 1,
                     MaxCountReached(f, r.matches + 1))
       IN IF r1.stop THEN r1                       \* goto exit_ugrep
          ELSE IF m.last = 0 THEN r1               \* skip further empty matches
          ELSE NoGroupLoop(f, lineno, line, binary, Tail(ms), m.last, r1)

\* the matched line itself: grouped (one record) or -g (one per match)
SelectedLine(f, lineno, line, binary, ms, r) ==
  IF f.flag_no_group
  THEN NoGroupLoop(f, lineno, line, binary, ms, UNDEFINED, r)
  ELSE Res(Append(r.out, Rec("sel", lineno, ":", TRUE, binary,
                             GroupedParts(line, ms, 0, "sl", "ms"))),
           r.matches + 1, FALSE)

\* a line written whole as context
ContextLine(lineno, line, binary) ==
  Rec("ctx", lineno, "-", TRUE, binary, <<Part("cx", line)>>)

\* a line with matches written as context (-v)
ContextMatchLine(lineno, line, binary, ms) ==
  Rec("ctx", lineno, "-", TRUE, binary, GroupedParts(line, ms, 0, "cx", "mc"))

\* no context, without -v: search the line for pattern matches
Search0(f, s, line, binary, ms) ==
  IF ms # <<>>
  THEN IF BinaryHalt(f, binary)
       THEN Res(Append(s.out, BinaryMsg), 1, TRUE)
       ELSE LET r == SelectedLine(f, s.lineno, line, binary, ms,
                                  Res(s.out, s.matches, FALSE))
            IN [r EXCEPT !.stop = r.stop \/ MaxCountReached(f, r.matches)]
  ELSE IF f.flag_any_line
       THEN Res(Append(s.out, ContextLine(s.lineno, line, binary)), s.matches,
                MaxCountReached(f, s.matches))
       ELSE Res(s.out, s.matches, MaxCountReached(f, s.matches))

\* Invert0 without the test of found: a line with matches is selected too
Invert0_NoFoundTest(f, s, line, binary, ms) ==
  IF ms # <<>> /\ f.flag_any_line
  THEN Res(Append(s.out, ContextMatchLine(s.lineno, line, binary, ms)),
           s.matches, FALSE)
  ELSE IF BinaryHalt(f, binary)
       THEN Res(Append(s.out, BinaryMsg), 1, TRUE)
       ELSE Res(Append(s.out, Rec("sel", s.lineno, ":", FALSE, FALSE,
                                  <<Part("sl", line)>>)),
                s.matches + 1, MaxCountReached(f, s.matches + 1))

\* no context, -v: select non-matching line
Invert0(f, s, line, binary, ms) ==
  IF ms # <<>>
  THEN IF f.flag_any_line
       THEN Res(Append(s.out, ContextMatchLine(s.lineno, line, binary, ms)),
                s.matches, FALSE)
       ELSE Res(s.out, s.matches, FALSE)            \* found = true
  ELSE IF BinaryHalt(f, binary)
       THEN Res(Append(s.out, BinaryMsg), 1, TRUE)
       ELSE Res(Append(s.out, Rec("sel", s.lineno, ":", FALSE, FALSE,
                                  <<Part("sl", line)>>)),
                s.matches + 1, MaxCountReached(f, s.matches + 1))

\* BinaryAbort leaving the count of matches as it is
BinaryAbort_KeepsMatches(s, next) == [s EXCEPT !.pc = "exit", !.here = next]

\* flag_binary_without_matches: "matches = 0; break;"
BinaryAbort(s, next) == [s EXCEPT !.matches = 0, !.pc = "exit", !.here = next]

\* one iteration of the line loop of the branch without context
Ugrep0Line(f, pat, buf, s) ==
  LET gl == getline(buf, s.here) IN
  IF gl.eof THEN [s EXCEPT !.pc = "exit"]
  ELSE LET line  == gl.line
           isbin == ~f.flag_text /\ ~f.flag_hex /\ is_binary(line)
       IN IF isbin /\ f.flag_binary_without_matches
          THEN BinaryAbort(s, gl.next)
          ELSE LET binary == f.flag_hex \/ isbin
                   ms     == find(line, pat)
                   r      == IF f.flag_invert_match
                             THEN Invert0(f, s, line, binary, ms)
                             ELSE Search0(f, s, line, binary, ms)
               IN IF r.stop
                  THEN [s EXCEPT !.out = r.out, !.matches = r.matches,
                                 !.here = gl.next, !.pc = "exit"]
                  ELSE [s EXCEPT !.out = r.out, !.matches = r.matches,
                                 !.here = gl.next,
                                 !.byte_offset = s.byte_offset + Len(line),
                                 !.lineno = s.lineno + 1]

----------------------------------------------------------------------------
(* ugrep(): the branch with context (-A, -B, -C) *)

\* the line lies in the after context of the last matched line
InAfterContext(f, s) ==
  f.flag_any_line \/ (s.after > 0 /\ s.after + f.flag_after_context >= s.lineno)

\* -A: "indicate the end of the group of after lines of the previous
\* matched line"
AfterGroupSeparator(f, s) ==
  /\ s.after + f.flag_after_context < s.lineno
  /\ s.matches > 0
  /\ f.flag_group_separator

\* BeforeBegin without the limit of flag_before_context lines
BeforeBegin_NoWindow(f, s) == s.before + 1

\* -B: the first line of the before context of line s.lineno
BeforeBegin(f, s) ==
  IF s.lineno > f.flag_before_context
     /\ s.before + 1 < s.lineno - f.flag_before_context
  THEN s.lineno - f.flag_before_context
  ELSE s.before + 1

\* -B: "indicate the begin of the group of before lines"
BeforeGroupSeparator(f, s) ==
  /\ BeforeBegin(f, s) < s.lineno
  /\ s.matches > 0
  /\ f.flag_group_separator

\* -B: the records of ring lines begin .. lineno-1.  Without -v each line is
\* written whole; with -v the line is written only through its matches.
RECURSIVE BeforeLines(_, _, _, _)
BeforeLines(f, pat, s, begin) ==
  IF begin >= s.lineno THEN <<>>
  ELSE LET begin_context == begin % (f.flag_before_context + 1)
           line == s.lines[begin_context]
           ms   == find(line, pat)
       IN (IF ~f.flag_invert_match
           THEN <<ContextLine(begin, line, s.binary[begin_context])>>
           ELSE IF ms # <<>>
                THEN <<ContextMatchLine(begin, line, s.binary[begin_context], ms)>>
                ELSE <<>>)
          \o BeforeLines(f, pat, s, begin + 1)

\* group separators and before-context lines written ahead of a matched line
ContextLead(f, pat, s) ==
  (IF f.flag_after_context > 0 /\ AfterGroupSeparator(f, s)
   THEN <<GroupSepMsg>> ELSE <<>>)
  \o (IF f.flag_before_context > 0
      THEN (IF BeforeGroupSeparator(f, s) THEN <<GroupSepMsg>> ELSE <<>>)
           \o BeforeLines(f, pat, s, BeforeBegin(f, s))
      ELSE <<>>)

\* Remember leaving before as it is
Remember_NoBefore(f, s) ==
  [s EXCEPT !.after = IF f.flag_after_context > 0 THEN s.lineno ELSE s.after]

\* "remember the matched line"
Remember(f, s) ==
  [s EXCEPT !.after  = IF f.flag_after_context > 0 THEN s.lineno ELSE s.after,
            !.before = IF f.flag_before_context > 0 THEN s.lineno ELSE s.before]

\* with context, without -v: s holds the current line in its ring slot
SearchC(f, pat, s, current, ms) ==
  LET line   == s.lines[current]
      binary == s.binary[current]
  IN IF ms # <<>>
     THEN IF BinaryHalt(f, binary)
          THEN [s EXCEPT !.out = Append(s.out, BinaryMsg), !.matches = 1,
                         !.pc = "exit"]
          ELSE LET r == SelectedLine(f, s.lineno, line, binary, ms,
                                     Res(s.out \o ContextLead(f, pat, s),
                                         s.matches, FALSE))
               IN [Remember(f, s) EXCEPT
                     !.out = r.out, !.matches = r.matches,
                     !.pc = IF r.stop \/ MaxCountReached(f, r.matches)
                            THEN "exit" ELSE "loop"]
     ELSE [s EXCEPT
             !.out = IF InAfterContext(f, s)
                     THEN Append(s.out, ContextLine(s.lineno, line, binary))
                     ELSE s.out,
             !.pc = IF MaxCountReached(f, s.matches) THEN "exit" ELSE "loop"]

\* with context, -v: select non-matching line
InvertC(f, pat, s, current, ms) ==
  LET line   == s.lines[current]
      binary == s.binary[current]
  IN IF ms # <<>>
     THEN IF InAfterContext(f, s)
          THEN [s EXCEPT !.out = Append(s.out,
                                   ContextMatchLine(s.lineno, line, binary, ms))]
          ELSE s                                    \* found = true
     ELSE IF BinaryHalt(f, binary)
          THEN [s EXCEPT !.out = Append(s.out, BinaryMsg), !.matches = 1,
                         !.pc = "exit"]
          ELSE [Remember(f, s) EXCEPT
                  !.out = (s.out \o ContextLead(f, pat, s))
                          \o <<Rec("sel", s.lineno, ":", TRUE, binary,
                                   <<Part("sl", line)>>)>>,
                  !.matches = s.matches + 1,
                  !.pc = IF MaxCountReached(f, s.matches + 1)
                         THEN "exit" ELSE "loop"]

\* one iteration of the line loop of the branch with context
UgrepCLine(f, pat, buf, s) ==
  LET current == s.lineno % (f.flag_before_context + 1)
      gl      == getline(buf, s.here)
      s0      == [s EXCEPT !.binary[current] = f.flag_hex,
                           !.byte_offsets[current] = s.byte_offset]
  IN IF gl.eof THEN [s0 EXCEPT !.pc = "exit"]
     ELSE LET isbin == ~f.flag_text /\ ~f.flag_hex /\ is_binary(gl.line)
              s1    == [s0 EXCEPT !.lines[current] = gl.line,
                                  !.here = gl.next,
                                  !.binary[current] = f.flag_hex \/ isbin]
          IN IF isbin /\ f.flag_binary_without_matches
             THEN BinaryAbort([s0 EXCEPT !.lines[current] = gl.line], gl.next)
             ELSE LET ms == find(gl.line, pat)
                      s2 == IF f.flag_invert_match
                            THEN InvertC(f, pat, s1, current, ms)
                            ELSE SearchC(f, pat, s1, current, ms)
                  IN IF s2.pc = "exit" THEN s2
                     ELSE [s2 EXCEPT
                             !.byte_offset = s.byte_offset + Len(gl.line),
                             !.lineno = s.lineno + 1]

\* exit_ugrep: --break adds a line break; return matches > 0
UgrepReturn(f, s) ==
  [munmap_file(s) EXCEPT !.out = IF (s.matches > 0 \/ f.flag_any_line) /\ f.flag_break
                    THEN Append(s.out, BreakMsg) ELSE s.out,
            !.ret = s.matches > 0,
            !.pc  = "ret"]

\* the branch ugrep() takes for line output
HasContext(f) == f.flag_before_context # 0 \/ f.flag_after_context # 0

UgrepLine(f, pat, buf, s) ==
  IF HasContext(f) THEN UgrepCLine(f, pat, buf, s) ELSE Ugrep0Line(f, pat, buf, s)

----------------------------------------------------------------------------
(* ugrep(): -q, -l, -L, -c, -o and -N, which bind the matcher to the whole
   input with read_file() *)

\* -q, -l, or -L: report if a single pattern match was found in the input
UgrepQuiet(f, pat, buf, s) ==
  LET found   == find(buf, pat) # <<>>
      matches == IF f.flag_invert_match THEN ~found ELSE found
      named   == /\ ~f.flag_quiet
                 /\ \/ matches /\ f.flag_files_with_match
                    \/ ~matches /\ f.flag_files_without_match
  IN [s EXCEPT !.matches = IF matches THEN 1 ELSE 0,
               !.out = IF named THEN Append(s.out, NameMsg) ELSE s.out,
               !.pc = "exit"]

\* -c with -v: count the number of non-matching lines
RECURSIVE CountInvert(_, _, _, _)
CountInvert(f, pat, ls, matches) ==
  IF ls = <<>> THEN matches
  ELSE IF find(Head(ls), pat) = <<>>
       THEN IF MaxCountReached(f, matches + 1) THEN matches + 1
            ELSE CountInvert(f, pat, Tail(ls), matches + 1)
       ELSE CountInvert(f, pat, Tail(ls), matches)

\* CountNoGroup with the -m test made before the increment: one match too many
RECURSIVE CountNoGroup_LateStop(_, _, _)
CountNoGroup_LateStop(f, ms, matches) ==
  IF ms = <<>> THEN matches
  ELSE IF MaxCountReached(f, matches) THEN matches + 1
       ELSE CountNoGroup_LateStop(f, Tail(ms), matches + 1)

\* -c with -g: count the number of patterns matched in the file
RECURSIVE CountNoGroup(_, _, _)
CountNoGroup(f, ms, matches) ==
  IF ms = <<>> THEN matches
  ELSE IF MaxCountReached(f, matches + 1) THEN matches + 1
       ELSE CountNoGroup(f, Tail(ms), matches + 1)

\* CountLines without the comparison of line numbers: every match counts
RECURSIVE CountLines_EveryMatch(_, _, _, _, _)
CountLines_EveryMatch(f, buf, ms, lineno, matches) ==
  IF ms = <<>> THEN matches
  ELSE IF MaxCountReached(f, matches + 1) THEN matches + 1
       ELSE CountLines_EveryMatch(f, buf, Tail(ms), lineno, matches + 1)

\* -c without -g: count the number of matching lines
RECURSIVE CountLines(_, _, _, _, _)
CountLines(f, buf, ms, lineno, matches) ==
  IF ms = <<>> THEN matches
  ELSE IF lineno # match_lineno(buf, Head(ms))
       THEN IF MaxCountReached(f, matches + 1) THEN matches + 1
            ELSE CountLines(f, buf, Tail(ms), match_lineno(buf, Head(ms)),
                            matches + 1)
       ELSE CountLines(f, buf, Tail(ms), lineno, matches)

UgrepCount(f, pat, buf, s) ==
  LET matches == IF f.flag_invert_match
                 THEN CountInvert(f, pat, LinesFrom(buf, 0), 0)
                 ELSE IF f.flag_no_group
                      THEN CountNoGroup(f, find(buf, pat), 0)
                      ELSE CountLines(f, buf, find(buf, pat), 0, 0)
  IN [s EXCEPT !.matches = matches,
               !.out = Append(s.out, CountMsg(matches)),
               !.pc = "exit"]

\* -o with -n: a multi-line match is echoed line by line, each further line
\* after a header with separator "|"
RECURSIVE Continuations(_, _)
Continuations(segs, lineno) ==
  IF segs = <<>> THEN <<>>
  ELSE <<Rec("cont", lineno + 1, "|", TRUE, FALSE, <<Part("ms", Head(segs))>>)>>
       \o Continuations(Tail(segs), lineno + 1)

\* -o: the records written for one match; st.lineno is the local lineno
OnlyMatch(f, buf, m, st, separator) ==
  LET bytes == match_bytes(buf, m)
      segs  == LinesFrom(bytes, 0)
  IN IF f.flag_hex
     THEN [st EXCEPT !.hex = TRUE,
                     !.out = Append(st.out, Rec("match", st.lineno, separator, TRUE,
                                                TRUE, <<Part("ms", bytes)>>))]
     ELSE IF ~f.flag_text /\ is_binary(bytes)
     THEN IF f.flag_with_hex
          THEN [st EXCEPT !.hex = TRUE,
                          !.out = Append(st.out, Rec("match", st.lineno, separator,
                                                     TRUE, TRUE, <<Part("ms", bytes)>>))]
          ELSE IF ~f.flag_binary_without_matches
               THEN [st EXCEPT !.out = Append(st.out,
                                         Rec("binmatch", st.lineno, separator, TRUE,
                                             FALSE, <<>>))]
               ELSE st
     ELSE IF f.flag_line_number /\ Len(segs) > 1
          THEN [st EXCEPT
                  !.hex = FALSE,
                  !.lineno = st.lineno + Len(segs) - 1,
                  !.out = (st.out \o <<Rec("match", st.lineno, separator, TRUE, FALSE,
                                           <<Part("ms", Head(segs))>>)>>)
                          \o Continuations(Tail(segs), st.lineno)]
          ELSE [st EXCEPT
                  !.hex = FALSE,
                  !.out = Append(st.out, Rec("match", st.lineno, separator, TRUE,
                                             FALSE, <<Part("ms", bytes)>>))]

\* -o or -N: the loop over all matches of the input
RECURSIVE OnlyLoop(_, _, _, _)
OnlyLoop(f, buf, ms, st) ==
  IF ms = <<>> THEN st
  ELSE LET m         == Head(ms)
           separator == IF st.lineno # match_lineno(buf, m) THEN ":" ELSE "+"
           counted   == f.flag_no_group \/ st.lineno # match_lineno(buf, m)
       IN IF counted /\ MaxCountReached(f, st.matches)
          THEN st                                        \* break
          ELSE LET st1 == IF counted
                          THEN [st EXCEPT
                                  !.lineno = match_lineno(buf, m),
                                  !.matches = st.matches + 1,
                                  !.out = IF f.flag_only_line_number
                                          THEN Append(st.out,
                                                 Rec("lnum", match_lineno(buf, m),
                                                     separator, TRUE, FALSE, <<>>))
                                          ELSE st.out]
                          ELSE st
                   st2 == IF f.flag_only_line_number THEN st1
                          ELSE OnlyMatch(f, buf, m, st1, separator)
               IN OnlyLoop(f, buf, Tail(ms), st2)

UgrepOnly(f, pat, buf, s) ==
  LET st == OnlyLoop(f, buf, find(buf, pat),
                     [lineno |-> 0, matches |-> 0, hex |-> FALSE, out |-> s.out])
  IN [s EXCEPT !.matches = st.matches, !.out = st.out, !.pc = "exit"]

\* which branch of ugrep() the flags select
IsQuietMode(f) ==
  f.flag_quiet \/ f.flag_files_with_match \/ f.flag_files_without_match
IsCountMode(f) == ~IsQuietMode(f) /\ f.flag_count
IsOnlyMode(f)  ==
  ~IsQuietMode(f) /\ ~f.flag_count
  /\ (f.flag_only_matching \/ f.flag_only_line_number)
IsLineMode(f)  == ~IsQuietMode(f) /\ ~f.flag_count /\ ~IsOnlyMode(f)

\* one step of ugrep(): a whole-input branch, one line of a line branch, or
\* the return
UgrepStep(f, pat, buf, s) ==
  IF s.pc = "exit" THEN UgrepReturn(f, s)
  ELSE LET s0 == IF s.lineno = 1 /\ s.maps = 0 THEN mmap_file(s) ELSE s
       IN IF IsQuietMode(f) THEN UgrepQuiet(f, pat, buf, s0)
          ELSE IF IsCountMode(f) THEN UgrepCount(f, pat, buf, s0)
          ELSE IF IsOnlyMode(f) THEN UgrepOnly(f, pat, buf, s0)
          ELSE UgrepLine(f, pat, buf, s0)

\* ugrep(): the whole call
RECURSIVE UgrepRun(_, _, _, _)
UgrepRun(f, pat, buf, s) ==
  IF s.pc = "ret" THEN s
  ELSE CHOOSE r \in {UgrepRun(f, pat, buf, t) : t \in {UgrepStep(f, pat, buf, s)}} : TRUE

ugrep(f, pat, buf) == UgrepRun(f, pat, buf, UgrepInit(f))

\* ugrep() on an opened file, which mmap() can map or not
ugrep_file(f, pat, buf, mmap) ==
  UgrepRun(f, pat, buf, [UgrepInit(f) EXCEPT !.mmap = mmap])

----------------------------------------------------------------------------
(* Inputs *)

TextLineKinds == {<<"a", NL>>, <<"b", NL>>, <<"a", "b", "a", NL>>, <<NL>>}
BinaryLineKinds == {<<NUL, "a", NL>>, <<NUL, "b", NL>>}

\* a last line without its newline
LastLineKinds == {<<>>, <<"a">>}

Files(kinds, n) == {Flatten(ls) \o e : ls \in SeqsUpTo(kinds, n), e \in LastLineKinds}

\* literal patterns; the last one matches across a newline
Patterns == {<<"a">>, <<"a", "b">>, <<"a", NL, "a">>}
LinePatterns == {<<"a">>, <<"a", "b">>}

NoWalk == [args |-> <<>>, stack |-> <<>>]
NoStats == [files |-> 0, dirs |-> 0, fileno |-> 0]

----------------------------------------------------------------------------
(* Steps of a ugrep() call on input, and of a second call on the same input
   under flags2 that starts when the first has returned *)

Rest == UNCHANGED <<flags, flags2, pattern, input, walk, stats, status>>

StepQuiet ==
  /\ eng.pc = "loop" /\ IsQuietMode(flags)
  /\ eng' = UgrepQuiet(flags, pattern, input, eng)
  /\ UNCHANGED eng2 /\ Rest

StepCount ==
  /\ eng.pc = "loop" /\ IsCountMode(flags)
  /\ eng' = UgrepCount(flags, pattern, input, eng)
  /\ UNCHANGED eng2 /\ Rest

StepOnly ==
  /\ eng.pc = "loop" /\ IsOnlyMode(flags)
  /\ eng' = UgrepOnly(flags, pattern, input, eng)
  /\ UNCHANGED eng2 /\ Rest

StepLine ==
  /\ eng.pc = "loop" /\ IsLineMode(flags)
  /\ eng' = UgrepLine(flags, pattern, input, eng)
  /\ UNCHANGED eng2 /\ Rest

StepReturn ==
  /\ eng.pc = "exit"
  /\ eng' = UgrepReturn(flags, eng)
  /\ UNCHANGED eng2 /\ Rest

Step2Only ==
  /\ eng.pc = "ret" /\ eng2.pc = "loop" /\ IsOnlyMode(flags2)
  /\ eng2' = UgrepOnly(flags2, pattern, input, eng2)
  /\ UNCHANGED eng /\ Rest

Step2Line ==
  /\ eng.pc = "ret" /\ eng2.pc = "loop" /\ IsLineMode(flags2)
  /\ eng2' = UgrepLine(flags2, pattern, input, eng2)
  /\ UNCHANGED eng /\ Rest

Step2Return ==
  /\ eng.pc = "ret" /\ eng2.pc = "exit"
  /\ eng2' = UgrepReturn(flags2, eng2)
  /\ UNCHANGED eng /\ Rest

\* what a finished call wrote
Selected(s) == {s.out[i].lineno : i \in {j \in 1..Len(s.out) : s.out[j].kind = "sel"}}
Kinds(s, k) == {j \in 1..Len(s.out) : s.out[j].kind = k}
BothReturned == eng.pc = "ret" /\ eng2.pc = "ret"

----------------------------------------------------------------------------
(* SpecInv: line mode without and with -v on the same text input *)

LineFlags == {[DefaultFlags EXCEPT !.flag_any_line = y, !.flag_no_group = g,
                                   !.flag_after_context = a,
                                   !.flag_before_context = b]
                : y \in BOOLEAN, g \in BOOLEAN, a \in 0..MaxCtx, b \in 0..MaxCtx}

InitInv ==
  /\ input \in Files(TextLineKinds, MaxLines)
  /\ pattern \in Patterns
  /\ \E f \in LineFlags :
       /\ flags = Normalize(f)
       /\ flags2 = Normalize([f EXCEPT !.flag_invert_match = TRUE])
  /\ eng = UgrepInit(flags)
  /\ eng2 = UgrepInit(flags2)
  /\ walk = NoWalk /\ stats = NoStats /\ status = "none"

NextInv == StepLine \/ StepReturn \/ Step2Line \/ Step2Return

SpecInv == InitInv /\ [][NextInv]_vars

\* C1: on text input with max-count unset, every line is selected by exactly
\* one of the run without -v and the run with -v.
C1_InvertComplement ==
  BothReturned =>
    /\ Selected(eng) \cap Selected(eng2) = {}
    /\ Selected(eng) \cup Selected(eng2) = 1..NumLines(input)

\* both runs returned on an input where each selected at least one line
C1_Witness ==
  /\ BothReturned
  /\ Selected(eng) # {} /\ Selected(eng2) # {}
  /\ flags2.flag_invert_match /\ ~flags.flag_invert_match

----------------------------------------------------------------------------
(* SpecCnt: -c and line mode on the same input with the same options *)

CntLineKinds == {<<"a", NL>>, <<"b", NL>>, <<"a", "b", "a", NL>>, <<NUL, "a", NL>>}

CntFlags == {BinaryFiles([DefaultFlags EXCEPT !.flag_max_count = k,
                                             !.flag_after_context = c,
                                             !.flag_before_context = c], t)
               : k \in 0..MaxCount, c \in {0, MaxCtx}, t \in BinaryFilesTypes}

InitCnt ==
  /\ input \in Files(CntLineKinds, MaxLines)
  /\ pattern \in Patterns
  /\ \E f \in CntFlags :
       /\ flags = Normalize([f EXCEPT !.flag_count = TRUE])
       /\ flags2 = Normalize(f)
  /\ eng = UgrepInit(flags)
  /\ eng2 = UgrepInit(flags2)
  /\ walk = NoWalk /\ stats = NoStats /\ status = "none"

NextCnt == StepCount \/ StepReturn \/ Step2Line \/ Step2Return

SpecCnt == InitCnt /\ [][NextCnt]_vars

\* the number -c wrote
CountWritten(s) == s.out[CHOOSE j \in Kinds(s, "count") : TRUE].n

\* no line of the input is treated as binary by line mode
TreatedAsText(f, buf) == f.flag_text \/ f.flag_hex \/ f.flag_with_hex \/ ~is_binary(buf)

\* no match of the pattern in the input runs past the end of a line
MatchesWithinLines(buf, pat) ==
  \A i \in 1..Len(find(buf, pat)) :
    \A j \in (find(buf, pat)[i].first + 1)..(find(buf, pat)[i].last - 1) : buf[j] # NL

----------------------------------------------------------------------------
(* SpecOnly: -c -g and -o on the same input *)

OnlyFlags == {BinaryFiles([DefaultFlags EXCEPT !.flag_max_count = k,
                                              !.flag_line_number = n], t)
                : k \in 0..MaxCount, n \in BOOLEAN, t \in BinaryFilesTypes}

InitOnly ==
  /\ input \in Files(CntLineKinds, MaxLines)
  /\ pattern \in Patterns
  /\ \E f \in OnlyFlags, g \in BOOLEAN :
       /\ flags = Normalize([f EXCEPT !.flag_count = TRUE, !.flag_no_group = TRUE])
       /\ flags2 = Normalize([f EXCEPT !.flag_only_matching = TRUE,
                                       !.flag_no_group = g])
  /\ eng = UgrepInit(flags)
  /\ eng2 = UgrepInit(flags2)
  /\ walk = NoWalk /\ stats = NoStats /\ status = "none"

NextOnly == StepCount \/ StepReturn \/ Step2Only \/ Step2Return

SpecOnly == InitOnly /\ [][NextOnly]_vars

\* -o writes every match it finds: no match is binary under a policy that
\* hides it or replaces it by a message
NoBinarySuppression(f, buf, pat) ==
  \/ f.flag_text \/ f.flag_hex \/ f.flag_with_hex
  \/ \A i \in 1..Len(find(buf, pat)) : ~is_binary(match_bytes(buf, find(buf, pat)[i]))

\* C3 as stated: absent binary suppression, -c -g writes the number of matches
\* -o emits, for every max-count applied to both runs.
C3_CountEqualsMatches ==
  (BothReturned /\ NoBinarySuppression(flags2, input, pattern))
    => CountWritten(eng) = Cardinality(Kinds(eng2, "match"))

\* C3 amended: the equality holds when max-count is unset or the -o run also
\* has -g.
C3_CountEqualsMatchesNoGroup ==
  (BothReturned /\ NoBinarySuppression(flags2, input, pattern)
   /\ (flags2.flag_max_count = 0 \/ flags2.flag_no_group))
    => CountWritten(eng) = Cardinality(Kinds(eng2, "match"))

\* -c -g and -o -g both stopped by max-count before the last match
C3_Witness ==
  /\ BothReturned
  /\ NoBinarySuppression(flags2, input, pattern)
  /\ flags2.flag_no_group /\ flags2.flag_max_count = 2
  /\ CountWritten(eng) = 2
  /\ Len(find(input, pattern)) > 2

----------------------------------------------------------------------------
(* SpecCtx: line mode with context *)

CtxLineKinds == {<<"a", "b", "a", NL>>, <<"b", NL>>}

CtxFlags == {[DefaultFlags EXCEPT !.flag_after_context = a,
                                  !.flag_before_context = b,
                                  !.flag_invert_match = v,
                                  !.flag_no_group = g,
                                  !.flag_max_count = k,
                                  !.flag_group_separator = sep]
               : a \in 0..MaxCtx, b \in 0..MaxCtx, v \in BOOLEAN, g \in BOOLEAN,
                 k \in {0, MaxCount}, sep \in BOOLEAN}

InitCtx ==
  /\ input \in {Flatten(ls) : ls \in SeqsUpTo(CtxLineKinds, MaxCtxLines)}
  /\ pattern = <<"a">>
  /\ \E f \in CtxFlags : HasContext(f) /\ flags = Normalize(f)
  /\ flags2 = DefaultFlags
  /\ eng = UgrepInit(flags)
  /\ eng2 = Idle
  /\ walk = NoWalk /\ stats = NoStats /\ status = "none"

NextCtx == StepLine \/ StepReturn

SpecCtx == InitCtx /\ [][NextCtx]_vars

\* positions of the line records (selected and context lines) of the output
LineRecs(s) == {j \in 1..Len(s.out) : s.out[j].kind \in {"sel", "ctx"}}

\* C4: every emitted context line lies at most flag_before_context lines
\* before or at most flag_after_context lines after an emitted selected line.
C4_ContextNearSelected ==
  \A i \in Kinds(eng, "ctx") :
    \E j \in Kinds(eng, "sel") :
      \/ /\ eng.out[i].lineno < eng.out[j].lineno
         /\ eng.out[j].lineno - eng.out[i].lineno <= flags.flag_before_context
      \/ /\ eng.out[i].lineno > eng.out[j].lineno
         /\ eng.out[i].lineno - eng.out[j].lineno <= flags.flag_after_context

\* a context line at full distance before, and another at full distance
\* after, a selected line
C4_Witness ==
  /\ flags.flag_before_context = 2 /\ flags.flag_after_context = 2
  /\ \E i \in Kinds(eng, "ctx"), j \in Kinds(eng, "sel") :
       i < j /\ eng.out[j].lineno - eng.out[i].lineno = 2
  /\ \E i \in Kinds(eng, "ctx"), j \in Kinds(eng, "sel") :
       i > j /\ eng.out[i].lineno - eng.out[j].lineno = 2

\* C7: with grouping, the line numbers of the emitted line records are
\* strictly increasing.
C7_StrictlyIncreasing ==
  ~flags.flag_no_group =>
    \A i, j \in LineRecs(eng) : i < j => eng.out[i].lineno < eng.out[j].lineno

\* C8: a group separator is written only when one is configured, a selected
\* line was emitted before it, and the line records around it are not adjacent.
C8_GroupSeparator ==
  \A i \in Kinds(eng, "gsep") :
    /\ flags.flag_group_separator
    /\ \E j \in Kinds(eng, "sel") : j < i
    /\ \A p, q \in LineRecs(eng) :
         (/\ p < i /\ i < q
          /\ \A r \in LineRecs(eng) : ~(p < r /\ r < q))
           => eng.out[q].lineno # eng.out[p].lineno + 1

----------------------------------------------------------------------------
(* SpecMax: every output mode under -m *)

MaxLineKinds == {<<"a", NL>>, <<"b", NL>>, <<"a", "b", "a", NL>>}

MaxModeFlags ==
  {[DefaultFlags EXCEPT !.flag_count = TRUE, !.flag_invert_match = v,
                        !.flag_no_group = g] : v \in BOOLEAN, g \in BOOLEAN}
  \cup
  {[DefaultFlags EXCEPT !.flag_only_matching = o, !.flag_only_line_number = ~o,
                        !.flag_no_group = g, !.flag_line_number = n]
     : o \in BOOLEAN, g \in BOOLEAN, n \in BOOLEAN}
  \cup
  {[DefaultFlags EXCEPT !.flag_invert_match = v, !.flag_no_group = g,
                        !.flag_any_line = y, !.flag_after_context = a,
                        !.flag_before_context = b]
     : v \in BOOLEAN, g \in BOOLEAN, y \in BOOLEAN, a \in 0..MaxCtx, b \in 0..MaxCtx}

InitMax ==
  /\ input \in Files(MaxLineKinds, MaxLines)
  /\ pattern \in Patterns
  /\ \E f \in MaxModeFlags, k \in 1..MaxCount :
       flags = Normalize([f EXCEPT !.flag_max_count = k])
  /\ flags2 = DefaultFlags
  /\ eng = UgrepInit(flags)
  /\ eng2 = Idle
  /\ walk = NoWalk /\ stats = NoStats /\ status = "none"

NextMax == StepCount \/ StepOnly \/ StepLine \/ StepReturn

SpecMax == InitMax /\ [][NextMax]_vars

\* positions of the records -o and -N write for matches
MatchRecs(s) == Kinds(s, "match") \cup Kinds(s, "lnum") \cup Kinds(s, "binmatch")

\* the selected records of a finished run: counted lines with -c, individual
\* matches with -g, matching lines otherwise
NumSelected(f, s) ==
  IF IsCountMode(f) THEN CountWritten(s)
  ELSE IF IsOnlyMode(f)
       THEN IF f.flag_no_group THEN Cardinality(MatchRecs(s))
            ELSE Cardinality({s.out[j].lineno : j \in MatchRecs(s)})
       ELSE IF f.flag_no_group THEN Cardinality(Kinds(s, "sel"))
            ELSE Cardinality(Selected(s))

\* C5: with max-count = k > 0 every mode produces at most k selected records
\* and, in line mode, nothing follows the k-th.
C5_MaxCount ==
  eng.pc = "ret" =>
    /\ NumSelected(flags, eng) <= flags.flag_max_count
    /\ (IsLineMode(flags) /\ NumSelected(flags, eng) = flags.flag_max_count)
         => eng.out[Len(eng.out)].kind = "sel"

----------------------------------------------------------------------------
(* The walk: findinfiles(), find() and recurse() *)

\* A directory entry or command-line argument.  exclude, exclude_override,
\* include and include_override say whether some glob of that list (of the
\* -dir list for a directory) matches the entry; magic whether the leading
\* bytes match the -M pattern; dot whether the pathname is ".".
Node(kind, content, entries) ==
  [kind |-> kind, content |-> content, entries |-> entries,
   lstat |-> TRUE, hidden |-> FALSE, fopen |-> TRUE, same_file |-> FALSE,
   dot |-> FALSE, magic |-> FALSE, exclude |-> FALSE, exclude_override |-> FALSE,
   include |-> FALSE, include_override |-> FALSE,
   mmap |-> FALSE]    \* mmap() can map the file

RegNode(content) == Node("reg", content, <<>>)
DirNode(entries) == Node("dir", <<>>, entries)
StdinNode == Node("stdin", <<>>, <<>>)

\* one running loop over entries: the loop of findinfiles() (level 0) or of a
\* recurse() call; the entries are handed to find() at level + 1
Frame(entries, level, path) ==
  [entries |-> entries, level |-> level, path |-> path, idx |-> 0, broke |-> FALSE]

WalkInit(args, cwd, stdin) ==
  [pc |-> "start", args |-> args, cwd |-> cwd, stdin |-> stdin,
   stack |-> <<>>,
   log |-> <<>>,       \* one entry per ugrep() call
   opens |-> 0,        \* successful fopen()/opendir() calls
   closes |-> 0,       \* fclose()/closedir() calls
   failures |-> 0,     \* failed lstat()/fopen()/opendir() calls
   warnings |-> 0]     \* messages written to stderr

WS(w, st) == [walk |-> w, stats |-> st]

Warn(f, ws) ==
  IF f.flag_no_messages THEN ws ELSE [ws EXCEPT !.walk.warnings = @ + 1]

Opened(ws) == [ws EXCEPT !.walk.opens = @ + 1]
Failed(ws) == [ws EXCEPT !.walk.failures = @ + 1]
Closed(ws) == [ws EXCEPT !.walk.closes = @ + 1]

\* ++stats.files; if (ugrep(matcher, input, pathname)) ++stats.fileno;
\* r is the engine state ugrep() ends in on the source
Search(r, ws, path) ==
  [ws EXCEPT !.stats.files = @ + 1,
             !.stats.fileno = IF r.ret THEN @ + 1 ELSE @,
             !.walk.log = Append(@, [path |-> path, ret |-> r.ret, out |-> r.out,
                                     maps |-> r.maps, unmaps |-> r.unmaps])]

\* Excluded without the test of the override globs
Excluded_NoOverride(node) == node.exclude

\* "do not exclude ... overridden by ! negation"; "exclude ... whose pathname
\* matches any one of the --exclude globs"
Excluded(node) == ~node.exclude_override /\ node.exclude

\* NotIncluded taking an override glob to admit the entry
NotIncluded_OverrideAdmits(hasInclude, node) ==
  hasInclude /\ ~node.include_override /\ ~node.include

\* with a non-empty include list: rejected by an override or by no include glob
NotIncluded(hasInclude, node) ==
  hasInclude /\ (node.include_override \/ ~node.include)

\* same_file answering no for every file
same_file_Never(node) == FALSE

\* same_file(out, file): st_dev and st_ino of the file are those of the output
same_file(node) == node.same_file

\* find(), --file-magic: [ws, done]; done when find() returns from this block
MagicSniff(f, r, ws, node, path) ==
  IF ~f.flag_file_magic THEN [ws |-> ws, done |-> FALSE]
  ELSE IF ~node.fopen THEN [ws |-> Failed(ws), done |-> FALSE]
  ELSE IF same_file(node) THEN [ws |-> Closed(Opened(ws)), done |-> TRUE]
  ELSE IF node.magic
       THEN [ws |-> Closed(Search(r, Opened(ws), path)),
             done |-> r.ret \/ ~f.flag_include]
       ELSE [ws |-> Closed(Opened(ws)), done |-> ~f.flag_include]

\* find() on a regular file, or a device with --devices=read
FindFile(f, r, ws, node, path) ==
  IF Excluded(node) THEN ws
  ELSE LET m == MagicSniff(f, r, ws, node, path) IN
       IF m.done THEN m.ws
       ELSE IF NotIncluded(f.flag_include, node) THEN m.ws
       ELSE IF ~node.fopen THEN Warn(f, Failed(m.ws))
       ELSE IF same_file(node) THEN Closed(Opened(m.ws))
       ELSE Closed(Search(r, Opened(m.ws), path))

\* find() enters the directory with recurse()
Recursed(f, node) ==
  /\ ~(f.flag_no_hidden /\ node.hidden)
  /\ node.lstat
  /\ node.kind = "dir"
  /\ f.flag_directories = "recurse"
  /\ \/ node.dot         \* "constraints if pathname != ."
     \/ ~Excluded(node) /\ ~NotIncluded(f.flag_include_dir, node)

\* find() on an entry it does not enter
FindLeaf(f, r, ws, node, path) ==
  IF f.flag_no_hidden /\ node.hidden THEN ws
  ELSE IF ~node.lstat THEN Warn(f, Failed(ws))               \* cannot stat
  ELSE IF node.kind = "dir"
       THEN IF f.flag_directories = "read" THEN Warn(f, ws)  \* is a directory
            ELSE ws
       ELSE IF node.kind = "reg" \/ f.flag_devices = "read"
            THEN FindFile(f, r, ws, node, path)
            ELSE ws

\* MaxFilesReached testing for more than max-files matching files
MaxFilesReached_OneLate(f, st) ==
  f.flag_max_files > 0 /\ st.fileno > f.flag_max_files

\* "stop after finding max-files matching files"
MaxFilesReached(f, st) == f.flag_max_files > 0 /\ st.fileno >= f.flag_max_files

\* the loop body's end: the entry is consumed and the loop breaks on max-files
Consumed(f, fr, st) ==
  [fr EXCEPT !.entries = Tail(fr.entries), !.idx = fr.idx + 1,
             !.broke = MaxFilesReached(f, st)]

Top == walk.stack[Len(walk.stack)]
TopEntry == Head(Top.entries)
TopPath == Top.path \o <<Top.idx + 1>>
Looping == walk.pc = "run" /\ walk.stack # <<>> /\ ~Top.broke /\ Top.entries # <<>>
ReplaceTop(stack, fr) == [stack EXCEPT ![Len(stack)] = fr]

\* RecurseOpens without the test of --max-depth
RecurseOpens_AnyDepth(f, node, level) == node.fopen

\* recurse(): --max-depth, ++stats.dirs, opendir(); the new frame or none
RecurseOpens(f, node, level) ==
  ~(f.flag_max_depth > 0 /\ level > f.flag_max_depth) /\ node.fopen

RecurseEnter(f, ws, node, level) ==
  IF f.flag_max_depth > 0 /\ level > f.flag_max_depth THEN ws
  ELSE IF ~node.fopen THEN Warn(f, Failed([ws EXCEPT !.stats.dirs = @ + 1]))
  ELSE Opened([ws EXCEPT !.stats.dirs = @ + 1])

EngRest == UNCHANGED <<flags, flags2, pattern, input, eng, eng2, status>>

\* findinfiles(): no arguments, recurse over the working directory at level 1;
\* main() made "-" the only argument unless -r
WalkStart ==
  /\ walk.pc = "start"
  /\ IF walk.args = <<>> /\ flags.flag_directories = "recurse"
     THEN LET ws == RecurseEnter(flags, WS(walk, stats), walk.cwd, 1) IN
          /\ stats' = ws.stats
          /\ walk' = [ws.walk EXCEPT
                        !.pc = "run",
                        !.stack = <<Frame(<<>>, 0, <<>>)>>
                                  \o (IF RecurseOpens(flags, walk.cwd, 1)
                                      THEN <<Frame(walk.cwd.entries, 1, <<>>)>>
                                      ELSE <<>>)]
     ELSE /\ stats' = stats
          /\ walk' = [walk EXCEPT
                        !.pc = "run",
                        !.stack = <<Frame(IF walk.args = <<>> THEN <<StdinNode>>
                                          ELSE walk.args, 0, <<>>)>>]
  /\ EngRest

\* findinfiles(): the argument "-", search standard input
WalkStdin ==
  /\ Looping /\ TopEntry.kind = "stdin"
  /\ \E r \in {ugrep(flags, pattern, walk.stdin)} :
     LET ws == Search(r, WS(walk, stats), TopPath) IN
     /\ stats' = ws.stats
     /\ walk' = [ws.walk EXCEPT !.stdin = <<>>,
                                !.stack = ReplaceTop(walk.stack,
                                            Consumed(flags, Top, ws.stats))]
  /\ EngRest

\* find() on an entry that is not entered: a file, or a directory or other
\* entry that is skipped
WalkFile ==
  /\ Looping /\ TopEntry.kind # "stdin" /\ ~Recursed(flags, TopEntry)
  /\ \E r \in {ugrep_file(flags, pattern, TopEntry.content, TopEntry.mmap)} :
     LET ws == FindLeaf(flags, r, WS(walk, stats), TopEntry, TopPath) IN
     /\ stats' = ws.stats
     /\ walk' = [ws.walk EXCEPT !.stack = ReplaceTop(walk.stack,
                                            Consumed(flags, Top, ws.stats))]
  /\ EngRest

\* find() on a directory it recurses into: recurse() opens it, or returns at
\* once (--max-depth, opendir() failure)
WalkEnter ==
  /\ Looping /\ TopEntry.kind # "stdin" /\ Recursed(flags, TopEntry)
  /\ LET ws == RecurseEnter(flags, WS(walk, stats), TopEntry, Top.level + 1) IN
     /\ stats' = ws.stats
     /\ walk' = [ws.walk EXCEPT
                   !.stack = IF RecurseOpens(flags, TopEntry, Top.level + 1)
                             THEN Append(walk.stack,
                                         Frame(TopEntry.entries, Top.level + 1, TopPath))
                             ELSE ReplaceTop(walk.stack,
                                             Consumed(flags, Top, ws.stats))]
  /\ EngRest

\* recurse() ends: closedir(), back in the caller's loop after find()
WalkLeave ==
  /\ walk.pc = "run" /\ Len(walk.stack) > 1
  /\ Top.broke \/ Top.entries = <<>>
  /\ LET below == walk.stack[Len(walk.stack) - 1] IN
     walk' = [walk EXCEPT
                !.closes = @ + 1,
                !.stack = Append(SubSeq(walk.stack, 1, Len(walk.stack) - 2),
                                 IF below.entries = <<>>
                                 THEN [below EXCEPT !.broke = MaxFilesReached(flags, stats)]
                                 ELSE Consumed(flags, below, stats))]
  /\ UNCHANGED stats
  /\ EngRest

\* findinfiles() returns stats.fileno > 0; main(): exit(found ? EXIT_OK : EXIT_FAIL)
EXIT_OK == 0
EXIT_FAIL == 1

WalkExit ==
  /\ walk.pc = "run" /\ Len(walk.stack) = 1
  /\ Top.broke \/ Top.entries = <<>>
  /\ walk' = [walk EXCEPT !.pc = "done", !.stack = <<>>]
  /\ status' = IF stats.fileno > 0 THEN EXIT_OK ELSE EXIT_FAIL
  /\ UNCHANGED <<flags, flags2, pattern, input, eng, eng2, stats>>

----------------------------------------------------------------------------
(* SpecWalk: a session over command-line arguments, standard input and
   directories, in line mode with pattern "a" *)

MatchingFile   == RegNode(<<"a", NL>>)
OtherFile      == RegNode(<<"b", NL>>)
LateBinaryFile == RegNode(<<"a", NL, NUL, NL>>)
UnreadableFile == [MatchingFile EXCEPT !.fopen = FALSE]
MissingFile    == [MatchingFile EXCEPT !.lstat = FALSE]
MagicFile      == [MatchingFile EXCEPT !.magic = TRUE]
IncludedFile   == [OtherFile EXCEPT !.magic = TRUE, !.include = TRUE]
InnerDir       == DirNode(<<MatchingFile, MatchingFile>>)
OuterDir       == DirNode(<<InnerDir, MatchingFile>>)

WalkNodes == {MatchingFile, OtherFile, LateBinaryFile, UnreadableFile,
              MissingFile, MagicFile, IncludedFile, OuterDir, StdinNode}

WalkFlags ==
  {[DefaultFlags EXCEPT !.flag_max_files = k,
                        !.flag_max_depth = d,
                        !.flag_directories = r,
                        !.flag_binary_without_matches = i,
                        !.flag_file_magic = m,
                        !.flag_include = m]
     : k \in 0..MaxFilesCap, d \in 0..MaxDepthCap, r \in {"read", "recurse"},
       i \in BOOLEAN, m \in BOOLEAN}

InitWalk ==
  /\ flags \in WalkFlags
  /\ flags2 = DefaultFlags
  /\ pattern = <<"a">>
  /\ input = <<>>
  /\ eng = Idle /\ eng2 = Idle
  /\ \E args \in SeqsUpTo(WalkNodes, MaxArgs) :
       walk = WalkInit(args, OuterDir, <<"a", NL>>)
  /\ stats = NoStats
  /\ status = "none"

NextWalk ==
  WalkStart \/ WalkStdin \/ WalkFile \/ WalkEnter \/ WalkLeave \/ WalkExit

SpecWalk == InitWalk /\ [][NextWalk]_vars

LineSelected ==
  \E i \in 1..Len(walk.log) :
    \E j \in 1..Len(walk.log[i].out) : walk.log[i].out[j].kind \in {"sel", "bin"}

\* C9: the session exits with status 0 if a line was selected in some
\* searched source and with status 1 if no line was selected in any source.
C9_ExitStatus ==
  walk.pc = "done" => (status = EXIT_OK <=> LineSelected)

----------------------------------------------------------------------------
(* SpecBin: line mode under the default binary policy on inputs with binary
   lines *)

BinFlags == {[DefaultFlags EXCEPT !.flag_invert_match = v,
                                  !.flag_no_group = g,
                                  !.flag_any_line = y,
                                  !.flag_after_context = a,
                                  !.flag_before_context = b,
                                  !.flag_max_count = k]
               : v \in BOOLEAN, g \in BOOLEAN, y \in BOOLEAN,
                 a \in {0, MaxCtx}, b \in {0, MaxCtx}, k \in {0, MaxCount}}

BinLineKinds == {<<"a", NL>>, <<"b", NL>>} \cup BinaryLineKinds

InitBin ==
  /\ input \in Files(BinLineKinds, MaxLines)
  /\ pattern = <<"a">>
  /\ \E f \in BinFlags : flags = Normalize(f)
  /\ flags2 = DefaultFlags
  /\ eng = UgrepInit(flags)
  /\ eng2 = Idle
  /\ walk = NoWalk /\ stats = NoStats /\ status = "none"

NextBin == StepLine \/ StepReturn

SpecBin == InitBin /\ [][NextBin]_vars

\* the line the loop reads next is binary and is selected
AtSelectedBinaryLine ==
  LET gl == getline(input, eng.here) IN
  /\ eng.pc = "loop"
  /\ ~gl.eof
  /\ is_binary(gl.line)
  /\ (find(gl.line, pattern) # <<>>) # flags.flag_invert_match

\* C10: under the default binary policy, the step of line mode that reaches
\* a selected binary line writes the binary-file message, leaves the loop
\* and counts the source as matched; after the message no step reads or
\* writes anything more and ugrep() returns true.
C10_BinaryFileMatches ==
  [][/\ AtSelectedBinaryLine
          => /\ eng'.out = Append(eng.out, BinaryMsg)
             /\ eng'.pc = "exit"
             /\ eng'.matches = 1
     /\ Kinds(eng, "bin") # {}
          => /\ Kinds(eng, "bin") = {Len(eng.out)}
             /\ eng'.out = eng.out
             /\ eng'.here = eng.here
             /\ eng'.pc = "ret" /\ eng'.ret]_vars

\* the message was written after a selected text line and with input left
C10_Witness ==
  /\ eng.pc = "ret" /\ eng.ret
  /\ Kinds(eng, "bin") # {} /\ Kinds(eng, "sel") # {}
  /\ eng.here < Len(input)

----------------------------------------------------------------------------
(* SpecNoBin: line mode under --binary-files=without-matches on inputs with
   binary lines *)

NoBinFlags == {[f EXCEPT !.flag_binary_without_matches = TRUE] : f \in BinFlags}

InitNoBin ==
  /\ input \in Files(BinLineKinds, MaxLines)
  /\ pattern = <<"a">>
  /\ \E f \in NoBinFlags : flags = Normalize(f)
  /\ flags2 = DefaultFlags
  /\ eng = UgrepInit(flags)
  /\ eng2 = Idle
  /\ walk = NoWalk /\ stats = NoStats /\ status = "none"

NextNoBin == StepLine \/ StepReturn

SpecNoBin == InitNoBin /\ [][NextNoBin]_vars

\* the line the loop reads next is binary
AtBinaryLine ==
  LET gl == getline(input, eng.here) IN
  eng.pc = "loop" /\ ~gl.eof /\ is_binary(gl.line)

\* a binary line is among the lines read so far
ReadBinaryLine == is_binary(SubSeq(input, 1, eng.here))

----------------------------------------------------------------------------
(* SpecGlob: a recursive session over one command-line argument, a file or
   a directory, under every outcome of the exclude, include and magic tests *)

GlobOutcomes == [exclude : BOOLEAN, exclude_override : BOOLEAN,
                 include : BOOLEAN, include_override : BOOLEAN]

Globbed(node, g) ==
  [node EXCEPT !.exclude = g.exclude, !.exclude_override = g.exclude_override,
               !.include = g.include, !.include_override = g.include_override]

GlobFiles == {Globbed([n EXCEPT !.magic = m], g)
                : n \in {MatchingFile, OtherFile}, m \in BOOLEAN, g \in GlobOutcomes}

GlobDirs == {Globbed([DirNode(<<MatchingFile>>) EXCEPT !.dot = d], g)
               : d \in BOOLEAN, g \in GlobOutcomes}

GlobModes == {DefaultFlags,
              [DefaultFlags EXCEPT !.flag_count = TRUE],
              [DefaultFlags EXCEPT !.flag_files_with_match = TRUE],
              [DefaultFlags EXCEPT !.flag_files_without_match = TRUE]}

GlobFlags ==
  {[f EXCEPT !.flag_directories = "recurse",
             !.flag_include = i, !.flag_include_dir = id, !.flag_file_magic = m]
     : f \in GlobModes, i \in BOOLEAN, id \in BOOLEAN, m \in BOOLEAN}

InitGlob ==
  /\ flags \in GlobFlags
  /\ flags2 = DefaultFlags
  /\ pattern = <<"a">>
  /\ input = <<>>
  /\ eng = Idle /\ eng2 = Idle
  /\ \E n \in GlobFiles \cup GlobDirs : walk = WalkInit(<<n>>, OuterDir, <<>>)
  /\ stats = NoStats
  /\ status = "none"

NextGlob == WalkStart \/ WalkFile \/ WalkEnter \/ WalkLeave \/ WalkExit

SpecGlob == InitGlob /\ [][NextGlob]_vars

\* the step is find() on the argument
AtArgument == walk.pc = "run" /\ Len(walk.stack) = 1 /\ Top.entries # <<>>

\* the entry is rejected by the exclude list; it is admitted by the include
\* list given
RejectedByExclude(e) == e.exclude /\ ~e.exclude_override
AdmittedByInclude(e, list) == ~list \/ (~e.include_override /\ e.include)

\* find() searched the file; find() entered the directory
Searched == Len(walk'.log) > Len(walk.log)
Entered == stats'.dirs > stats.dirs

\* C12: with no magic configured a file is searched, and a directory is
\* entered, if and only if the exclude list does not reject it and the
\* include list (of files, of directories) admits it.
C12_Globs ==
  [][(AtArgument /\ ~flags.flag_file_magic)
       => /\ TopEntry.kind = "reg"
               => (Searched <=> /\ ~RejectedByExclude(TopEntry)
                                /\ AdmittedByInclude(TopEntry, flags.flag_include))
          /\ TopEntry.kind = "dir"
               => (Entered <=> /\ ~RejectedByExclude(TopEntry)
                               /\ AdmittedByInclude(TopEntry, flags.flag_include_dir))]_vars

\* C12 for every entry but a directory whose pathname is ".", which is
\* entered whatever the globs say.
C12_GlobsButDot ==
  [][(AtArgument /\ ~flags.flag_file_magic)
       => /\ TopEntry.kind = "reg"
               => (Searched <=> /\ ~RejectedByExclude(TopEntry)
                                /\ AdmittedByInclude(TopEntry, flags.flag_include))
          /\ TopEntry.kind = "dir"
               => (Entered <=> \/ TopEntry.dot
                               \/ /\ ~RejectedByExclude(TopEntry)
                                  /\ AdmittedByInclude(TopEntry, flags.flag_include_dir))]_vars

\* a file matched by an exclude glob and an include glob and by no override
\* was passed over
C12_Witness ==
  /\ walk.pc = "done" /\ ~flags.flag_file_magic /\ flags.flag_include
  /\ walk.args[1].kind = "reg"
  /\ walk.args[1].exclude /\ walk.args[1].include
  /\ ~walk.args[1].exclude_override /\ ~walk.args[1].include_override
  /\ walk.log = <<>>

\* C13: with a magic pattern configured, a file the exclude list does not
\* reject is searched if and only if its leading bytes match the magic
\* pattern or the include list is non-empty and admits it, whether or not
\* the search finds a match.
C13_Magic ==
  [][(AtArgument /\ flags.flag_file_magic /\ TopEntry.kind = "reg"
        /\ ~RejectedByExclude(TopEntry))
       => (Searched <=> \/ TopEntry.magic
                        \/ /\ flags.flag_include
                           /\ ~TopEntry.include_override /\ TopEntry.include)]_vars

\* a file that fails magic and that the include list admits was searched,
\* and found without a match
C13_Witness ==
  /\ walk.pc = "done" /\ flags.flag_file_magic /\ flags.flag_include
  /\ walk.args[1].kind = "reg" /\ ~walk.args[1].magic
  /\ Len(walk.log) = 1 /\ ~walk.log[1].ret

\* C14: find() hands a file to the search engine at most once, so that at
\* most one name line or count line is written for it.
C14_SearchedOnce ==
  [][AtArgument => Len(walk'.log) <= Len(walk.log) + 1]_vars

----------------------------------------------------------------------------
(* SpecList: -l and -L, with and without -v, on text input *)

ListFlags ==
  {[DefaultFlags EXCEPT !.flag_files_with_match = l,
                        !.flag_files_without_match = ~l,
                        !.flag_invert_match = v]
     : l \in BOOLEAN, v \in BOOLEAN}

InitList ==
  /\ input \in Files(TextLineKinds, MaxLines)
  /\ pattern \in LinePatterns
  /\ \E f \in ListFlags : flags = Normalize(f)
  /\ flags2 = DefaultFlags
  /\ eng = UgrepInit(flags)
  /\ eng2 = Idle
  /\ walk = NoWalk /\ stats = NoStats /\ status = "none"

NextList == StepQuiet \/ StepReturn

SpecList == InitList /\ [][NextList]_vars

\* the input holds a selected line: "Selected lines are those not matching
\* any of the specified patterns" with -v, those matching without
HasSelectedLine ==
  \E i \in 1..NumLines(input) :
    (find(LinesFrom(input, 0)[i], pattern) # <<>>) # flags.flag_invert_match

\* C15: with -l the name of the file is written if and only if the file
\* holds a selected line, with -L if and only if it holds none.
C15_FilesWithMatch ==
  eng.pc = "ret"
    => /\ flags.flag_files_with_match
            => (Kinds(eng, "name") # {} <=> HasSelectedLine)
       /\ (flags.flag_files_without_match /\ ~flags.flag_files_with_match)
            => (Kinds(eng, "name") # {} <=> ~HasSelectedLine)

----------------------------------------------------------------------------
(* SpecNum: line mode with -n on text input *)

NumFlags ==
  {[DefaultFlags EXCEPT !.flag_line_number = TRUE,
                        !.flag_invert_match = v,
                        !.flag_no_group = g,
                        !.flag_any_line = y,
                        !.flag_after_context = a,
                        !.flag_before_context = b]
     : v \in BOOLEAN, g \in BOOLEAN, y \in BOOLEAN,
       a \in {0, MaxCtx}, b \in {0, MaxCtx}}

InitNum ==
  /\ input \in Files(TextLineKinds, MaxLines)
  /\ pattern = <<"a">>
  /\ \E f \in NumFlags : flags = Normalize(f)
  /\ flags2 = DefaultFlags
  /\ eng = UgrepInit(flags)
  /\ eng2 = Idle
  /\ walk = NoWalk /\ stats = NoStats /\ status = "none"

NextNum == StepLine \/ StepReturn

SpecNum == InitNum /\ [][NextNum]_vars

\* C16: with -n every line record of line mode, selected or context, has
\* a header with the number of a line of the source, and while the loop
\* runs the line read next has the number of lines read so far plus one.
C16_LineNumberHeaders ==
  /\ \A j \in LineRecs(eng) :
       eng.out[j].hdr /\ eng.out[j].lineno \in 1..NumLines(input)
  /\ eng.pc = "loop" => eng.lineno = NumLines(SubSeq(input, 1, eng.here)) + 1

----------------------------------------------------------------------------
(* SpecHex: line mode with -g, in text rendering and with --hex *)

HexFlags ==
  {[DefaultFlags EXCEPT !.flag_no_group = TRUE,
                        !.flag_hex = x,
                        !.flag_any_line = y,
                        !.flag_after_context = a,
                        !.flag_before_context = b,
                        !.flag_max_count = k]
     : x \in BOOLEAN, y \in BOOLEAN, a \in {0, MaxCtx}, b \in {0, MaxCtx},
       k \in {0, MaxCount}}

InitHex ==
  /\ input \in Files(TextLineKinds, MaxLines)
  /\ pattern \in LinePatterns
  /\ \E f \in HexFlags : flags = Normalize(f)
  /\ flags2 = DefaultFlags
  /\ eng = UgrepInit(flags)
  /\ eng2 = Idle
  /\ walk = NoWalk /\ stats = NoStats /\ status = "none"

NextHex == StepLine \/ StepReturn

SpecHex == InitHex /\ [][NextHex]_vars

\* the bytes written for a record after its header
Payload(rec) == Flatten([i \in 1..Len(rec.parts) |-> rec.parts[i].bytes])

\* C17: with -g every record of a selected line holds the bytes of the
\* whole line, in text and in hex rendering; the first record of a line has
\* the configured separator and every further one "+".
C17_NoGroupPayload ==
  \A j \in Kinds(eng, "sel") :
    LET rec == eng.out[j] IN
    /\ rec.hdr
    /\ rec.lineno \in 1..NumLines(input)
    /\ Payload(rec) = LinesFrom(input, 0)[rec.lineno]
    /\ rec.sep = IF \E i \in Kinds(eng, "sel") : i < j /\ eng.out[i].lineno = rec.lineno
                 THEN "+" ELSE ":"

----------------------------------------------------------------------------
(* SpecGroup: line mode with grouped matches on text input *)

\* a pattern that matches the empty string
EmptyMatch == <<>>

GroupFlags ==
  {[DefaultFlags EXCEPT !.flag_any_line = y,
                        !.flag_after_context = a,
                        !.flag_before_context = b,
                        !.flag_max_count = k]
     : y \in BOOLEAN, a \in {0, MaxCtx}, b \in {0, MaxCtx}, k \in {0, MaxCount}}

InitGroup ==
  /\ input \in Files(TextLineKinds, MaxLines)
  /\ pattern \in LinePatterns \cup {EmptyMatch}
  /\ \E f \in GroupFlags : flags = Normalize(f)
  /\ flags2 = DefaultFlags
  /\ eng = UgrepInit(flags)
  /\ eng2 = Idle
  /\ walk = NoWalk /\ stats = NoStats /\ status = "none"

NextGroup == StepLine \/ StepReturn

SpecGroup == InitGroup /\ [][NextGroup]_vars

\* the spans of the line that the matched pieces of a record occupy, given
\* that the pieces are written one after the other
RECURSIVE Spans(_, _)
Spans(parts, at) ==
  IF parts = <<>> THEN <<>>
  ELSE LET rest == Spans(Tail(parts), at + Len(Head(parts).bytes)) IN
       IF Head(parts).mode = "ms"
       THEN <<[first |-> at, last |-> at + Len(Head(parts).bytes)]>> \o rest
       ELSE rest

\* C18: the record of a selected text line holds its matches in order and
\* without overlap, each at its place in the line, and gaps, matches and
\* tail together are the line byte for byte.
C18_GroupedReconstruction ==
  \A j \in Kinds(eng, "sel") :
    LET rec  == eng.out[j]
        line == LinesFrom(input, 0)[rec.lineno]
        sp   == Spans(rec.parts, 0)
    IN /\ Payload(rec) = line
       /\ sp # <<>>
       /\ \A i \in 1..Len(sp) :
            /\ sp[i].first <= sp[i].last /\ sp[i].last <= Len(line)
            /\ i > 1 => sp[i - 1].last <= sp[i].first
            /\ pattern # EmptyMatch => OccursAt(line, sp[i].first + 1, pattern)

\* a line with two matches, the first at its start, and a line that ends
\* with a match
C18_Witness ==
  /\ \E j \in Kinds(eng, "sel") :
       LET sp == Spans(eng.out[j].parts, 0) IN Len(sp) = 2 /\ sp[1].first = 0
  /\ \E j \in Kinds(eng, "sel") :
       LET sp == Spans(eng.out[j].parts, 0) IN
       sp[Len(sp)].last = Len(LinesFrom(input, 0)[eng.out[j].lineno])
  /\ eng.pc = "ret"

\* a line written for an empty match at its start

C18_WitnessEmpty ==
  \E j \in Kinds(eng, "sel") :
    LET sp == Spans(eng.out[j].parts, 0) IN
    sp = <<[first |-> 0, last |-> 0]>> /\ Len(Payload(eng.out[j])) > 1

----------------------------------------------------------------------------
(* SpecSep: -o and -N, without and with -n, on the same input *)

SepFlags ==
  {[DefaultFlags EXCEPT !.flag_only_matching = o,
                        !.flag_only_line_number = ~o,
                        !.flag_no_group = g,
                        !.flag_max_count = k]
     : o \in BOOLEAN, g \in BOOLEAN, k \in 0..MaxCount}

InitSep ==
  /\ input \in Files(TextLineKinds, MaxLines)
  /\ pattern \in Patterns
  /\ \E f \in SepFlags :
       /\ flags = Normalize(f)
       /\ flags2 = Normalize([f EXCEPT !.flag_line_number = TRUE])
  /\ eng = UgrepInit(flags)
  /\ eng2 = UgrepInit(flags2)
  /\ walk = NoWalk /\ stats = NoStats /\ status = "none"

NextSep == StepOnly \/ StepReturn \/ Step2Only \/ Step2Return

SpecSep == InitSep /\ [][NextSep]_vars

\* the line numbers and separators of the headers written for matches: -N
\* writes the line number of the match, -o writes one header for each match
MatchHeaders(f, s) ==
  LET js == {j \in 1..Len(s.out) : j \in MatchRecs(s)}
      nth(k) == CHOOSE j \in js : Cardinality({i \in js : i < j}) = k - 1
  IN [k \in 1..Cardinality(js) |->
        <<IF f.flag_only_line_number THEN s.out[nth(k)].lineno
          ELSE match_lineno(input, find(input, pattern)[k]),
          s.out[nth(k)].sep>>]

\* the first header of each line number has the configured separator, every
\* later one "+"
FirstThenPlus(f, s) ==
  \A k \in 1..Len(MatchHeaders(f, s)) :
    MatchHeaders(f, s)[k][2] =
      IF \E i \in 1..(k - 1) : MatchHeaders(f, s)[i][1] = MatchHeaders(f, s)[k][1]
      THEN "+" ELSE ":"

\* the matches counted: every header with -g, else the headers that start a
\* new line number
Counted(f, s) ==
  IF f.flag_no_group THEN Len(MatchHeaders(f, s))
  ELSE Cardinality({MatchHeaders(f, s)[k][1] : k \in 1..Len(MatchHeaders(f, s))})

\* C19: in -o and -N the first match of a line number has the configured
\* separator and the later ones "+"; a match is counted exactly when it
\* starts a new line number or -g is set, with -n as without it.
C19_OnlySeparators ==
  /\ FirstThenPlus(flags, eng) /\ FirstThenPlus(flags2, eng2)
  /\ eng.pc = "ret" => eng.matches = Counted(flags, eng)
  /\ eng2.pc = "ret" => eng2.matches = Counted(flags2, eng2)
  /\ BothReturned => /\ eng.matches = eng2.matches
                     /\ MatchHeaders(flags, eng) = MatchHeaders(flags2, eng2)

----------------------------------------------------------------------------
(* SpecAny: -y on text input, in every output mode *)

\* the options that take the output away from the line branches
AnyModes == {"line", "quiet", "files-with-match", "files-without-match", "count",
             "only-line-number"}

AnyFlags ==
  {[DefaultFlags EXCEPT !.flag_any_line = TRUE,
                        !.flag_invert_match = v,
                        !.flag_only_matching = o,
                        !.flag_line_number = n,
                        !.flag_after_context = a,
                        !.flag_before_context = b,
                        !.flag_quiet = (m = "quiet"),
                        !.flag_files_with_match = (m = "files-with-match"),
                        !.flag_files_without_match = (m = "files-without-match"),
                        !.flag_count = (m = "count"),
                        !.flag_only_line_number = (m = "only-line-number")]
     : v \in BOOLEAN, o \in BOOLEAN, n \in BOOLEAN, a \in {0, MaxCtx},
       b \in {0, MaxCtx}, m \in AnyModes}

InitAny ==
  /\ input \in Files(TextLineKinds, MaxLines)
  /\ pattern \in LinePatterns
  /\ \E f \in AnyFlags : flags = Normalize(f)
  /\ flags2 = DefaultFlags
  /\ eng = UgrepInit(flags)
  /\ eng2 = Idle
  /\ walk = NoWalk /\ stats = NoStats /\ status = "none"

NextAny == StepQuiet \/ StepCount \/ StepOnly \/ StepLine \/ StepReturn

SpecAny == InitAny /\ [][NextAny]_vars

\* -A, -B and -o are off
ContextAndOnlyOff(f) ==
  f.flag_after_context = 0 /\ f.flag_before_context = 0 /\ ~f.flag_only_matching

\* the output is one record for each line of the input, in input order: a
\* selected record for a selected line, else a context record with "-"
EveryLineOnce(f, s) ==
  /\ Len(s.out) = NumLines(input)
  /\ \A k \in 1..Len(s.out) :
       LET line == LinesFrom(input, 0)[k]
           sel  == (find(line, pattern) # <<>>) # f.flag_invert_match
       IN /\ s.out[k].lineno = k
          /\ Payload(s.out[k]) = line
          /\ s.out[k].kind = IF sel THEN "sel" ELSE "ctx"
          /\ ~sel => s.out[k].sep = "-"

\* C20 as stated: with -y, grouped matches, text input and no -m, every line
\* of the input is written once and in order, selected lines as selected
\* records and the others as context records with "-"; -y turns -A, -B and
\* -o off.
C20_AnyLine ==
  /\ ContextAndOnlyOff(flags)
  /\ eng.pc = "ret" => EveryLineOnce(flags, eng)

\* C20 amended: the same in line mode, that is without -q, -l, -L, -c and -N.
C20_AnyLineInLineMode ==
  /\ ContextAndOnlyOff(flags)
  /\ (eng.pc = "ret" /\ IsLineMode(flags)) => EveryLineOnce(flags, eng)

\* a finished run over selected and other lines, asked for with -A, -B and -o
C20_Witness ==
  /\ eng.pc = "ret" /\ IsLineMode(flags)
  /\ Kinds(eng, "sel") # {} /\ Kinds(eng, "ctx") # {}
  /\ Len(eng.out) = MaxLines

----------------------------------------------------------------------------
(* SpecSelf: a session whose arguments include the file the output goes to *)

SelfFiles ==
  {[n EXCEPT !.same_file = s, !.magic = m, !.include = i]
     : n \in {MatchingFile, OtherFile}, s \in BOOLEAN, m \in BOOLEAN, i \in BOOLEAN}

SelfFlags ==
  {[f EXCEPT !.flag_file_magic = m, !.flag_include = i]
     : f \in GlobModes, m \in BOOLEAN, i \in BOOLEAN}

InitSelf ==
  /\ flags \in SelfFlags
  /\ flags2 = DefaultFlags
  /\ pattern = <<"a">>
  /\ input = <<>>
  /\ eng = Idle /\ eng2 = Idle
  /\ \E n \in SelfFiles, o \in {MatchingFile, OtherFile} :
       walk \in {WalkInit(<<n, o>>, OuterDir, <<>>), WalkInit(<<o, n>>, OuterDir, <<>>)}
  /\ stats = NoStats
  /\ status = "none"

NextSelf == WalkStart \/ WalkFile \/ WalkExit

SpecSelf == InitSelf /\ [][NextSelf]_vars

----------------------------------------------------------------------------
(* SpecQuiet: a session in quiet mode, asked for in each of its spellings *)

QuietOptions == {"-q", "--quiet", "--silent"}

\* main(): the assignments made for the option
Option(f, opt) ==
  IF opt = "-q" THEN [f EXCEPT !.flag_quiet = TRUE]
  ELSE IF opt \in {"--quiet", "--silent"}
       THEN [f EXCEPT !.flag_quiet = TRUE, !.flag_no_messages = TRUE]
       ELSE f

InitQuiet ==
  /\ \E opt \in QuietOptions, r \in {"read", "recurse"} :
       flags = Normalize(Option([DefaultFlags EXCEPT !.flag_directories = r], opt))
  /\ flags2 = DefaultFlags
  /\ pattern = <<"a">>
  /\ input = <<>>
  /\ eng = Idle /\ eng2 = Idle
  /\ \E args \in SeqsUpTo(WalkNodes, MaxArgs) :
       walk = WalkInit(args, OuterDir, <<"a", NL>>)
  /\ stats = NoStats
  /\ status = "none"

NextQuiet ==
  WalkStart \/ WalkStdin \/ WalkFile \/ WalkEnter \/ WalkLeave \/ WalkExit

SpecQuiet == InitQuiet /\ [][NextQuiet]_vars

\* C22: in quiet mode, whichever option asked for it, no step writes a
\* warning and no source is searched once a source with a match was found.
C22_Quiet ==
  [][/\ walk'.warnings = walk.warnings
     /\ stats.fileno >= 1 => walk'.log = walk.log]_vars

----------------------------------------------------------------------------
(* SpecPolicy: main() from the binary-files option to the search of one
   input in line mode *)

EXIT_ERROR == 2

\* --binary-files=TYPE with the documented values, the value -I assigns, and
\* a value that is none of them
DocumentedTypes == {"binary", "without-match", "text", "hex", "with-hex"}
TypedTypes == DocumentedTypes \cup {"without-matches", "other"}

\* main(): the options assign flag_binary_files
OptionBinaryFiles(f, type) == [f EXCEPT !.flag_binary_files = type]
OptionI(f) == [f EXCEPT !.flag_binary_files = "without-matches"]

\* main(): the values that do not end in help()
BinaryFilesValid(f) == f.flag_binary_files \in BinaryFilesTypes

\* the state before the options are normalised
InMain == [Idle EXCEPT !.pc = "main"]

InitPolicy ==
  /\ input \in Files(BinLineKinds, MaxLines)
  /\ pattern = <<"a">>
  /\ \E v \in BOOLEAN :
       LET f == [DefaultFlags EXCEPT !.flag_invert_match = v] IN
       flags \in {OptionBinaryFiles(f, type) : type \in TypedTypes} \cup {OptionI(f)}
  /\ flags2 = DefaultFlags
  /\ eng = InMain
  /\ eng2 = Idle
  /\ walk = NoWalk /\ stats = NoStats /\ status = "none"

\* main(): --binary-files is normalised by assigning flags, or help() exits
MainBinaryFiles ==
  /\ eng.pc = "main"
  /\ IF BinaryFilesValid(flags)
     THEN LET f == Normalize(BinaryFiles(flags, flags.flag_binary_files)) IN
          /\ flags' = f
          /\ eng' = UgrepInit(f)
          /\ status' = status
     ELSE /\ flags' = flags
          /\ eng' = [eng EXCEPT !.pc = "help"]
          /\ status' = EXIT_ERROR
  /\ UNCHANGED <<flags2, pattern, input, eng2, walk, stats>>

NextPolicy == MainBinaryFiles \/ StepLine \/ StepReturn

SpecPolicy == InitPolicy /\ [][NextPolicy]_vars

\* the policy flags the documentation gives a value
PolicyOf(type) ==
  [without_matches |-> type = "without-match", text |-> type = "text",
   hex |-> type = "hex", with_hex |-> type = "with-hex"]

\* the policy flags set
Policy(f) ==
  [without_matches |-> f.flag_binary_without_matches, text |-> f.flag_text,
   hex |-> f.flag_hex, with_hex |-> f.flag_with_hex]

\* C23: each of binary, without-match, text, hex and with-hex is accepted and
\* selects its policy, every other value ends in a usage error, and
\* without-match selects the policy of -I.
C23_BinaryFiles ==
  eng.pc # "main" =>
    /\ flags.flag_binary_files \in DocumentedTypes
         => /\ eng.pc # "help"
            /\ Policy(flags) = PolicyOf(flags.flag_binary_files)
    /\ flags.flag_binary_files \notin DocumentedTypes => eng.pc = "help"
    /\ Policy(BinaryFiles(DefaultFlags, "without-match"))
         = Policy(BinaryFiles(OptionI(DefaultFlags), OptionI(DefaultFlags).flag_binary_files))

----------------------------------------------------------------------------
(* SpecFail: a session over files and directories that cannot be opened or
   stat'ed, with and without -s *)

UnreadableDir == [InnerDir EXCEPT !.fopen = FALSE]

FailNodes == {MatchingFile, UnreadableFile, [UnreadableFile EXCEPT !.include = TRUE],
              MissingFile, UnreadableDir, DirNode(<<UnreadableFile, MatchingFile>>)}

FailFlags ==
  {[DefaultFlags EXCEPT !.flag_no_messages = s,
                        !.flag_directories = "recurse",
                        !.flag_max_files = k,
                        !.flag_file_magic = m,
                        !.flag_include = i]
     : s \in BOOLEAN, k \in {0, MaxFilesCap}, m \in BOOLEAN, i \in BOOLEAN}

InitFail ==
  /\ flags \in FailFlags
  /\ flags2 = DefaultFlags
  /\ pattern = <<"a">>
  /\ input = <<>>
  /\ eng = Idle /\ eng2 = Idle
  /\ \E args \in SeqsUpTo(FailNodes, MaxArgs) :
       walk = WalkInit(args, OuterDir, <<>>)
  /\ stats = NoStats
  /\ status = "none"

NextFail == WalkStart \/ WalkFile \/ WalkEnter \/ WalkLeave \/ WalkExit

SpecFail == InitFail /\ [][NextFail]_vars

\* the step is find() on an entry and a call of lstat(), fopen() or opendir()
\* fails in it
OpenFails == Looping /\ walk'.failures > walk.failures

\* the loop the entry was in goes on with the next entry
NextEntry ==
  /\ walk'.pc = "run" /\ Len(walk'.stack) = Len(walk.stack)
  /\ walk'.stack[Len(walk.stack)].entries = Tail(Top.entries)
  /\ walk'.stack[Len(walk.stack)].broke => MaxFilesReached(flags, stats)

\* C24: when a file cannot be opened or stat'ed or a directory cannot be
\* opened, neither counter of files changes, a warning is written if and
\* only if -s is not given, the walk goes on with the next entry and the
\* exit status is untouched.
C24_SkipFailures ==
  [][OpenFails
       => /\ stats'.files = stats.files /\ stats'.fileno = stats.fileno
          /\ (walk'.warnings > walk.warnings) <=> ~flags.flag_no_messages
          /\ NextEntry
          /\ status' = status]_vars

----------------------------------------------------------------------------
(* SpecDepth: a recursive session over nested directories with --max-depth *)

DeepDir == DirNode(<<OuterDir, OtherFile>>)

DepthFlags ==
  {[f EXCEPT !.flag_directories = "recurse", !.flag_max_depth = d]
     : f \in GlobModes, d \in 0..MaxDepthCap}

InitDepth ==
  /\ flags \in DepthFlags
  /\ flags2 = DefaultFlags
  /\ pattern = <<"a">>
  /\ input = <<>>
  /\ eng = Idle /\ eng2 = Idle
  /\ \E args \in SeqsUpTo({MatchingFile, OuterDir, DeepDir}, MaxArgs) :
       walk = WalkInit(args, OuterDir, <<>>)
  /\ stats = NoStats
  /\ status = "none"

NextDepth == WalkStart \/ WalkFile \/ WalkEnter \/ WalkLeave \/ WalkExit

SpecDepth == InitDepth /\ [][NextDepth]_vars

\* C25: with --max-depth=d no directory deeper than d levels is entered, a
\* directory of the command line or the working directory being at level 1;
\* with d = 1 the files in such a directory are searched and its
\* sub-directories are not entered.
C25_MaxDepth ==
  [][flags.flag_max_depth > 0
       => /\ \A i \in 1..Len(walk'.stack) :
               walk'.stack[i].level <= flags.flag_max_depth
          /\ (flags.flag_max_depth = 1 /\ Looping /\ Top.level = 1)
               => /\ TopEntry.kind = "reg" => Searched
                  /\ TopEntry.kind = "dir"
                       => Len(walk'.stack) = Len(walk.stack) /\ stats' = stats]_vars

\* with --max-depth=1 the walk is in a directory of the command line after
\* passing its sub-directory and searching its file
C25_Witness ==
  /\ flags.flag_max_depth = 1
  /\ walk.pc = "run" /\ walk.args # <<>> /\ Len(walk.stack) = 2
  /\ Top.level = 1 /\ Top.idx = 2
  /\ stats.dirs = 1 /\ stats.files = 1

----------------------------------------------------------------------------
(* SpecZero: the line branch without context, and the branch with context
   run with -A 0 -B 0, on the same input *)

ZeroFlags ==
  {BinaryFiles([DefaultFlags EXCEPT !.flag_invert_match = v,
                                    !.flag_no_group = g,
                                    !.flag_any_line = y,
                                    !.flag_max_count = k], type)
     : v \in BOOLEAN, g \in BOOLEAN, y \in BOOLEAN, k \in {0, MaxCount},
       type \in BinaryFilesTypes}

InitZero ==
  /\ input \in Files(BinLineKinds, MaxLines)
  /\ pattern = <<"a">>
  /\ \E f \in ZeroFlags : flags = Normalize(f)
  /\ flags2 = flags
  /\ eng = UgrepInit(flags)
  /\ eng2 = UgrepInit(flags2)
  /\ walk = NoWalk /\ stats = NoStats /\ status = "none"

\* the second run takes the branch with context
Step2CLine ==
  /\ eng.pc = "ret" /\ eng2.pc = "loop"
  /\ eng2' = UgrepCLine(flags2, pattern, input, eng2)
  /\ UNCHANGED eng /\ Rest

NextZero == StepLine \/ StepReturn \/ Step2CLine \/ Step2Return

SpecZero == InitZero /\ [][NextZero]_vars

\* C26: with -A 0 and -B 0 the branch without context writes what the
\* branch with context writes, record for record, and counts the same
\* matches, with and without -v.
C26_ZeroContext ==
  BothReturned => /\ eng.out = eng2.out
                  /\ eng.matches = eng2.matches
                  /\ eng.ret = eng2.ret

----------------------------------------------------------------------------
(* SpecRing: line mode with -B on inputs long enough for the ring of before
   lines to wrap around, with text and binary lines *)

RingLineKinds == {<<"a", NL>>, <<"b", NL>>, <<NUL, "b", NL>>}

RingFlags ==
  {BinaryFiles([DefaultFlags EXCEPT !.flag_before_context = b,
                                    !.flag_after_context = a,
                                    !.flag_invert_match = v], type)
     : b \in 1..MaxCtx, a \in {0, MaxCtx}, v \in BOOLEAN,
       type \in {"binary", "hex", "with-hex"}}

InitRing ==
  /\ input \in {Flatten(ls) : ls \in SeqsUpTo(RingLineKinds, MaxCtxLines)}
  /\ pattern = <<"a">>
  /\ \E f \in RingFlags : flags = Normalize(f)
  /\ flags2 = DefaultFlags
  /\ eng = UgrepInit(flags)
  /\ eng2 = Idle
  /\ walk = NoWalk /\ stats = NoStats /\ status = "none"

NextRing == StepLine \/ StepReturn

SpecRing == InitRing /\ [][NextRing]_vars

\* line b of the input, the offset of its first byte, and whether the line
\* is written in hexadecimal
LineNo(b) == LinesFrom(input, 0)[b]
OffsetOf(b) == Len(Flatten(SubSeq(LinesFrom(input, 0), 1, b - 1)))
BinaryOf(f, b) == f.flag_hex \/ (~f.flag_text /\ is_binary(LineNo(b)))

\* the number of the last selected line written, or 0
LastSelected(s) ==
  IF Selected(s) = {} THEN 0
  ELSE CHOOSE n \in Selected(s) : \A m \in Selected(s) : m <= n

\* C27: a before-context line b written while line n is processed has
\* n - before-context <= b < n, follows the last selected line, and its ring
\* slot b mod (before-context + 1) holds the content, byte offset and binary
\* flag of line b, the ones written.
C27_BeforeRing ==
  [][\A j \in (Len(eng.out) + 1)..Len(eng'.out) :
       (eng'.out[j].kind = "ctx" /\ eng'.out[j].lineno < eng.lineno)
         => LET b    == eng'.out[j].lineno
                slot == b % (flags.flag_before_context + 1)
            IN /\ eng.lineno <= b + flags.flag_before_context
               /\ b > LastSelected(eng)
               /\ eng'.lines[slot] = LineNo(b)
               /\ eng'.byte_offsets[slot] = OffsetOf(b)
               /\ eng'.binary[slot] = BinaryOf(flags, b)
               /\ Payload(eng'.out[j]) = LineNo(b)
               /\ eng'.out[j].hex = BinaryOf(flags, b)]_vars

\* a binary line written as before context from a ring slot that held an
\* earlier line, after a selected line was written
C27_Witness ==
  \E j \in Kinds(eng, "ctx") :
    /\ eng.out[j].lineno > flags.flag_before_context + 1
    /\ eng.out[j].hex /\ ~flags.flag_hex
    /\ \E i \in Kinds(eng, "sel") : i < j
    /\ \E i \in Kinds(eng, "sel") : i > j /\ eng.out[i].lineno > eng.out[j].lineno

----------------------------------------------------------------------------
(* SpecEmpty: line mode with a pattern that matches the empty string, under
   fair scheduling of the line loop *)

EmptyFlags ==
  {[DefaultFlags EXCEPT !.flag_no_group = g,
                        !.flag_invert_match = v,
                        !.flag_after_context = c,
                        !.flag_before_context = c]
     : g \in BOOLEAN, v \in BOOLEAN, c \in {0, MaxCtx}}

EmptyLineKinds == {<<"a", NL>>, <<"b", NL>>}

InitEmpty ==
  /\ input \in Files(EmptyLineKinds, MaxLines)
  /\ pattern \in {EmptyMatch, <<"a">>}
  /\ \E f \in EmptyFlags : flags = Normalize(f)
  /\ flags2 = DefaultFlags
  /\ eng = UgrepInit(flags)
  /\ eng2 = Idle
  /\ walk = NoWalk /\ stats = NoStats /\ status = "none"

NextEmpty == StepLine \/ StepReturn

\* ugrep() runs on: the loop is not suspended for ever
SpecEmpty == InitEmpty /\ [][NextEmpty]_vars /\ WF_vars(NextEmpty)

\* the records of the line hold one match, the empty one at its start
OneEmptyMatch(s, lineno) ==
  /\ Cardinality({j \in LineRecs(s) : s.out[j].lineno = lineno}) <= 1
  /\ \A j \in LineRecs(s) :
       s.out[j].lineno = lineno =>
         Cardinality({i \in 1..Len(s.out[j].parts) :
                        s.out[j].parts[i].mode \in {"ms", "mc"}}) <= 1

----------------------------------------------------------------------------
(* SpecRelease: a session over files that mmap() can map, in every output
   mode, with --max-count, -I and --max-files *)

MappedFile   == [RegNode(<<"a", NL, "a", NL>>) EXCEPT !.mmap = TRUE]
MappedBinary == [LateBinaryFile EXCEPT !.mmap = TRUE]
MappedDir    == DirNode(<<MappedFile, [MappedFile EXCEPT !.magic = TRUE]>>)

ReleaseNodes == {MappedFile, MappedBinary, MatchingFile, UnreadableFile,
                 MappedDir, StdinNode}

ReleaseModes ==
  {[DefaultFlags EXCEPT !.flag_files_with_match = TRUE],
   [DefaultFlags EXCEPT !.flag_count = TRUE],
   [DefaultFlags EXCEPT !.flag_count = TRUE, !.flag_invert_match = TRUE],
   [DefaultFlags EXCEPT !.flag_only_matching = TRUE],
   DefaultFlags,
   [DefaultFlags EXCEPT !.flag_after_context = MaxCtx]}

ReleaseFlags ==
  {[m EXCEPT !.flag_directories = "recurse",
             !.flag_max_count = k,
             !.flag_binary_without_matches = i,
             !.flag_max_files = n,
             !.flag_file_magic = g]
     : m \in ReleaseModes, k \in {0, 1}, i \in BOOLEAN, n \in {0, 1},
       g \in BOOLEAN}

InitRelease ==
  /\ flags \in ReleaseFlags
  /\ flags2 = DefaultFlags
  /\ pattern = <<"a">>
  /\ input = <<>>
  /\ eng = Idle /\ eng2 = Idle
  /\ \E args \in SeqsUpTo(ReleaseNodes, MaxArgs) :
       walk = WalkInit(args, MappedDir, <<"a", NL>>)
  /\ stats = NoStats
  /\ status = "none"

NextRelease ==
  WalkStart \/ WalkStdin \/ WalkFile \/ WalkEnter \/ WalkLeave \/ WalkExit

SpecRelease == InitRelease /\ [][NextRelease]_vars

\* the directories the walk is inside of
OpenDirs == IF walk.stack = <<>> THEN 0 ELSE Len(walk.stack) - 1

\* C29: every ugrep() call has unmapped the one map it obtained, if any, when
\* it returns, and between two entries of the walk the only handles not yet
\* closed are those of the directories the walk is inside of; none is left
\* when the walk ends, stopped by --max-files or not.
C29_Release ==
  /\ \A i \in 1..Len(walk.log) :
       walk.log[i].maps <= 1 /\ walk.log[i].unmaps = walk.log[i].maps
  /\ walk.opens - walk.closes = OpenDirs
  /\ walk.pc = "done" => walk.opens = walk.closes

\* the walk stopped on --max-files inside a directory after one file, whose
\* search stopped on --max-count with the file mapped
C29_Witness ==
  /\ walk.pc = "done"
  /\ flags.flag_max_files = 1 /\ flags.flag_max_count = 1
  /\ walk.args = <<MappedDir>>
  /\ stats.dirs = 1 /\ stats.files = 1
  /\ walk.opens = 2 /\ walk.closes = 2
  /\ Len(walk.log) = 1
  /\ walk.log[1].maps = 1 /\ walk.log[1].unmaps = 1

----------------------------------------------------------------------------
(* SpecMatched: a session over text and binary files under each
   --binary-files policy, in line mode and in the -c, -l and -o modes *)

BinaryMatchingFile == RegNode(<<NUL, "a", NL>>)
TwoLineFile        == RegNode(<<"b", NL, "a", NL>>)

MatchedNodes == {MatchingFile, OtherFile, LateBinaryFile, BinaryMatchingFile,
                 TwoLineFile, IncludedFile, InnerDir, StdinNode}

MatchedModes ==
  {[DefaultFlags EXCEPT !.flag_invert_match = v, !.flag_any_line = y,
                        !.flag_after_context = c, !.flag_max_count = k]
     : v \in BOOLEAN, y \in BOOLEAN, c \in {0, MaxCtx}, k \in {0, 1}}
  \cup
  {[DefaultFlags EXCEPT !.flag_count = TRUE],
   [DefaultFlags EXCEPT !.flag_files_with_match = TRUE],
   [DefaultFlags EXCEPT !.flag_only_matching = TRUE]}

MatchedFlags ==
  {BinaryFiles([m EXCEPT !.flag_directories = "recurse",
                         !.flag_max_files = n,
                         !.flag_file_magic = g,
                         !.flag_include = g], type)
     : m \in MatchedModes, n \in {0, MaxFilesCap}, g \in BOOLEAN,
       type \in BinaryFilesTypes}

InitMatched ==
  /\ \E f \in MatchedFlags : flags = Normalize(f)
  /\ flags2 = DefaultFlags
  /\ pattern = <<"a">>
  /\ input = <<>>
  /\ eng = Idle /\ eng2 = Idle
  /\ \E args \in SeqsUpTo(MatchedNodes, MaxArgs) :
       walk = WalkInit(args, InnerDir, <<"a", NL>>)
  /\ stats = NoStats
  /\ status = "none"

NextMatched ==
  WalkStart \/ WalkStdin \/ WalkFile \/ WalkEnter \/ WalkLeave \/ WalkExit

SpecMatched == InitMatched /\ [][NextMatched]_vars

\* the call wrote a selected line or the binary-file message
WroteMatch(out) ==
  \E j \in 1..Len(out) : out[j].kind = "sel" \/ out[j].kind = "bin"

\* C30: in line mode a call of ugrep() returned true if and only if it wrote
\* a selected line or the binary-file message for its source, and in every
\* mode no more files are counted as matching than as searched.
C30_Matched ==
  /\ IsLineMode(flags)
       => \A i \in 1..Len(walk.log) :
            walk.log[i].ret <=> WroteMatch(walk.log[i].out)
  /\ stats.fileno <= stats.files

=============================================================================
